---------------------------- MODULE Spec2Model ----------------------------
(***************************************************************************)
(* A model of the ip-address library: the integer codec (text <-> bigint), *)
(* the validation grammar, the IPv4 / IPv6 address values and the CIDR     *)
(* value.                                                                  *)
(*                                                                         *)
(* Representation.  A JavaScript bigint is an arbitrary-precision two's    *)
(* complement integer.  It is modelled as a record [s, d]: d is the        *)
(* little-endian sequence of its low hexadecimal digits (0..15) and s the  *)
(* digit that is repeated for ever above them (0 for n >= 0, 15 for        *)
(* n < 0), normalised so that the top digit of d differs from s.  A piece  *)
(* of text is a sequence of one-character strings.                         *)
(***************************************************************************)
EXTENDS Integers, Sequences, FiniteSets, TLC

Max2(a, b) == IF a >= b THEN a ELSE b
Min2(a, b) == IF a <= b THEN a ELSE b

(***************************************************************************)
(* bigint arithmetic                                                       *)
(***************************************************************************)
Pow2 == <<1, 2, 4, 8>>
Pow16 == <<1, 16, 256, 4096>>

RECURSIVE TopIn(_, _, _, _)
\* the largest index in lo..hi at which d differs from s; 0 when there is none
TopIn(s, d, lo, hi) ==
    IF lo > hi THEN 0
    ELSE IF d[hi] # s THEN hi
    ELSE IF lo = hi THEN 0
    ELSE IF \A i \in ((lo + hi) \div 2 + 1)..hi : d[i] = s
    THEN TopIn(s, d, lo, (lo + hi) \div 2)
    ELSE TopIn(s, d, (lo + hi) \div 2 + 1, hi - 1)

\* the normal form of the number with low digits d and sign digit s
Norm(s, d) == [s |-> s, d |-> SubSeq(d, 1, TopIn(s, d, 1, Len(d)))]

\* the normal form of the number whose digits are d, the last one its sign
SignNorm(d) == Norm(d[Len(d)], d)

RECURSIVE NatDigits(_)
NatDigits(n) == IF n = 0 THEN <<>> ELSE <<n % 16>> \o NatDigits(n \div 16)

\* BigInt(n) for a small non-negative number n
Big(n) == [s |-> 0, d |-> NatDigits(n)]

BigZero == [s |-> 0, d |-> <<>>]

\* hexadecimal digit i (from 0) of the two's complement expansion of x
DigitAt(x, i) == IF i < Len(x.d) THEN x.d[i + 1] ELSE x.s

\* bit i (from 0) of the two's complement expansion of x
BitAt(x, i) == (DigitAt(x, i \div 4) \div Pow2[(i % 4) + 1]) % 2

\* the bitwise and / or of two hexadecimal digits
And4 == [a \in 0..15 |-> [b \in 0..15 |->
            ((a % 2) * (b % 2)) + 2 * (((a \div 2) % 2) * ((b \div 2) % 2))
            + 4 * (((a \div 4) % 2) * ((b \div 4) % 2)) + 8 * ((a \div 8) * (b \div 8))]]
Or4 == [a \in 0..15 |-> [b \in 0..15 |-> a + b - And4[a][b]]]

\* the digits of x and y combined one by one through the table op
Bitwise(op, x, y) ==
    Norm(op[x.s][y.s],
         [i \in 1..Max2(Len(x.d), Len(y.d)) |-> op[DigitAt(x, i - 1)][DigitAt(y, i - 1)]])

\* x & y
BigAnd(x, y) == Bitwise(And4, x, y)

\* x | y
BigOr(x, y) == Bitwise(Or4, x, y)

\* ~x
BigNot(x) == [s |-> 15 - x.s, d |-> [i \in 1..Len(x.d) |-> 15 - x.d[i]]]

\* x << k, for k = 4 * q + log2(r)
ShlBy(x, q, r) ==
    Norm(x.s, [i \in 1..(Len(x.d) + q + 1) |->
                 IF i <= q THEN 0
                 ELSE ((DigitAt(x, i - 1 - q) * r) % 16)
                      + (IF i - 1 - q = 0 THEN 0 ELSE (DigitAt(x, i - 2 - q) * r) \div 16)])

\* x << k
BigShl(x, k) == ShlBy(x, k \div 4, Pow2[(k % 4) + 1])

\* x >> k, for k = 4 * q + log2(r)
ShrBy(x, q, r) ==
    Norm(x.s, [i \in 1..Max2(Len(x.d) - q, 0) |->
                 ((DigitAt(x, i - 1 + q) + 16 * DigitAt(x, i + q)) \div r) % 16])

\* x >> k (arithmetic: the sign is kept)
BigShr(x, k) == ShrBy(x, k \div 4, Pow2[(k % 4) + 1])

\* hexadecimal digits 4j .. 4j+3 of x as a number
Limb(x, j) ==
    DigitAt(x, 4 * j) + 16 * DigitAt(x, 4 * j + 1) + 256 * DigitAt(x, 4 * j + 2)
    + 4096 * DigitAt(x, 4 * j + 3)

RECURSIVE AddLimbs(_, _, _, _, _)
\* limbs j .. m-1 of x + y, given t: the sum of their limbs j and the carry
AddLimbs(x, y, j, m, t) ==
    IF j = m THEN <<>>
    ELSE <<t % 65536>>
         \o AddLimbs(x, y, j + 1, m, Limb(x, j + 1) + Limb(y, j + 1) + (t \div 65536))

\* the hexadecimal digits of a sequence of limbs
LimbDigits(r) == [i \in 1..(4 * Len(r)) |-> (r[((i - 1) \div 4) + 1] \div Pow16[((i - 1) % 4) + 1]) % 16]

\* x + y + c, added limb by limb in a two's complement window at least two
\* digits wider than both operands, so that its last digit is the sign
AddCarry(x, y, c) ==
    SignNorm(LimbDigits(AddLimbs(x, y, 0, ((Max2(Len(x.d), Len(y.d)) + 1) \div 4) + 1,
                                 Limb(x, 0) + Limb(y, 0) + c)))

\* x + y
BigAdd(x, y) == AddCarry(x, y, 0)

\* x - y
BigSub(x, y) == AddCarry(x, BigNot(y), 1)

\* -x
BigNeg(x) == AddCarry(BigZero, BigNot(x), 1)

BigLt(x, y) == BigSub(x, y).s = 15
BigLe(x, y) == ~BigLt(y, x)

RECURSIVE DigitsNat(_)
DigitsNat(d) == IF d = <<>> THEN 0 ELSE d[1] + 16 * DigitsNat(Tail(d))

\* Number(x) for a small non-negative x
BigNat(x) == DigitsNat(x.d)

\* 2^k - 1
Ones(k) ==
    [s |-> 0, d |-> [i \in 1..((k + 3) \div 4) |-> IF 4 * i <= k THEN 15 ELSE Pow2[(k % 4) + 1] - 1]]

(***************************************************************************)
(* text                                                                    *)
(***************************************************************************)
Digits == {"0", "1", "2", "3", "4", "5", "6", "7", "8", "9"}
HexLower == <<"0", "1", "2", "3", "4", "5", "6", "7", "8", "9", "a", "b", "c", "d", "e", "f">>
HexUpper == <<"0", "1", "2", "3", "4", "5", "6", "7", "8", "9", "A", "B", "C", "D", "E", "F">>
HexChars == {HexLower[i] : i \in 1..16} \cup {HexUpper[i] : i \in 1..16}

\* the value of a decimal or hex digit
HexValue == [c \in HexChars |-> (CHOOSE i \in 1..16 : HexLower[i] = c \/ HexUpper[i] = c) - 1]

MinOf(S) == CHOOSE i \in S : \A j \in S : i <= j
MaxOf(S) == CHOOSE i \in S : \A j \in S : j <= i

\* String.prototype.includes, for a one-character needle
Includes(s, c) == \E i \in 1..Len(s) : s[i] = c

\* the positions of the character c in s
Places(s, c) == {i \in 1..Len(s) : s[i] = c}

RECURSIVE SplitAt(_, _, _)
\* the pieces of s from position from on, cut at the positions of the set hit
SplitAt(s, hit, from) ==
    IF \A i \in hit : i < from THEN <<SubSeq(s, from, Len(s))>>
    ELSE <<SubSeq(s, from, MinOf({i \in hit : i >= from}) - 1)>>
         \o SplitAt(s, hit, MinOf({i \in hit : i >= from}) + 1)

\* String.prototype.split, for a one-character separator
Split(s, c) == SplitAt(s, Places(s, c), 1)

RECURSIVE Join(_, _)
\* Array.prototype.join
Join(parts, sep) ==
    IF parts = <<>> THEN <<>>
    ELSE IF Len(parts) = 1 THEN parts[1]
    ELSE parts[1] \o sep \o Join(Tail(parts), sep)

RECURSIVE DecStr(_)
\* the decimal text of a number n >= 0, as a template literal renders it
DecStr(n) == IF n < 10 THEN <<HexLower[n + 1]>> ELSE DecStr(n \div 10) \o <<HexLower[(n % 10) + 1]>>

RECURSIVE HexStr(_)
\* n.toString(16)
HexStr(n) == IF n < 16 THEN <<HexLower[n + 1]>> ELSE HexStr(n \div 16) \o <<HexLower[(n % 16) + 1]>>

\* part.padStart(4, '0')
PadStart4(part) == [i \in 1..(4 - Len(part)) |-> "0"] \o part

\* the largest number that the digits of a text are counted up to
Huge == 99999

RECURSIVE DigitsVal(_, _, _)
\* the number a run of digits denotes in the given radix; a number above Huge
\* is reported as Huge, which every comparison of the program (> 255, > 128)
\* treats like the true value
DigitsVal(s, radix, acc) ==
    IF s = <<>> \/ acc < 0 THEN acc
    ELSE DigitsVal(Tail(s), radix, Min2(acc * radix + HexValue[Head(s)], Huge))

\* Number(part), for a part made of decimal digits
NumberOf(part) == DigitsVal(part, 10, 0)

RECURSIVE SkipSpaces(_)
SkipSpaces(s) == IF s # <<>> /\ Head(s) = " " THEN SkipSpaces(Tail(s)) ELSE s

RECURSIVE TakeDigits(_)
TakeDigits(s) == IF s # <<>> /\ Head(s) \in Digits THEN <<Head(s)>> \o TakeDigits(Tail(s)) ELSE <<>>

\* the number of a run d of decimal digits, negated or not; NaN for no digit
ParseDigits(negative, d) ==
    IF d = <<>> THEN [nan |-> TRUE, val |-> 0]
    ELSE [nan |-> FALSE, val |-> IF negative THEN 0 - NumberOf(d) ELSE NumberOf(d)]

\* a text without leading white space: one sign is read, then the digits
ParseSigned(t) ==
    IF t # <<>> /\ Head(t) \in {"+", "-"} THEN ParseDigits(Head(t) = "-", TakeDigits(Tail(t)))
    ELSE ParseDigits(FALSE, TakeDigits(t))

\* parseInt(text, 10): leading white space is skipped, one sign is read, then
\* the longest run of digits; what follows is ignored; NaN when no digit is read
parseInt10(text) == ParseSigned(SkipSpaces(text))

\* Number.parseInt(part, 16), for a part of hex digits
parseInt16(part) == DigitsVal(part, 16, 0)

(***************************************************************************)
(* regular expressions: chr(S) one character of S, cat / alt over a        *)
(* sequence of expressions, rep(r, lo, hi) for r{lo,hi} (hi = -1: no upper *)
(* limit).  Ends(re, s, P) is the set of positions at which a match of re  *)
(* that starts at a position of P can end.                                 *)
(***************************************************************************)
Chr(S) == <<"chr", S>>
Cat(rs) == <<"cat", rs>>
Alt(rs) == <<"alt", rs>>
Rep(r, lo, hi) == <<"rep", r, lo, hi>>

RECURSIVE Ends(_, _, _)
RECURSIVE RepEnds(_, _, _, _, _)
Ends(re, s, P) ==
    IF P = {} THEN {}
    ELSE CASE re[1] = "chr" -> {p + 1 : p \in {q \in P : q <= Len(s) /\ s[q] \in re[2]}}
           [] re[1] = "cat" -> IF re[2] = <<>> THEN P
                               ELSE Ends(Cat(Tail(re[2])), s, Ends(Head(re[2]), s, P))
           [] re[1] = "alt" -> UNION {Ends(re[2][i], s, P) : i \in 1..Len(re[2])}
           [] re[1] = "rep" -> RepEnds(re[2], re[3], re[4], s, P)

RepEnds(r, lo, hi, s, P) ==
    IF P = {} THEN {}
    ELSE (IF lo <= 0 THEN P ELSE {})
         \cup (IF hi = 0 THEN {} ELSE RepEnds(r, lo - 1, hi - 1, s, Ends(r, s, P)))

\* new RegExp('^' + re + '$').test(s)
Test(re, s) == (Len(s) + 1) \in Ends(re, s, {1})

(***************************************************************************)
(* constants.ts                                                            *)
(***************************************************************************)
BITS4 == 32
BITS6 == 128
BITS(version) == IF version = 4 THEN BITS4 ELSE BITS6

\* MAX_IP[version]: 0xffffffffn and 0xffffffffffffffffffffffffffffffffn
MAX_IP(version) == Ones(IF version = 4 THEN 32 ELSE 128)

Colon == Chr({":"})
Dot == Chr({"."})
Range(lo, hi) == Chr({HexLower[i + 1] : i \in lo..hi})

IPV6_SEGMENT == Rep(Chr(HexChars), 1, 4)
IPV4_PART ==
    Alt(<< Cat(<<Chr({"2"}), Chr({"5"}), Range(0, 5)>>),
           Cat(<<Chr({"2"}), Range(0, 4), Range(0, 9)>>),
           Cat(<<Chr({"1"}), Rep(Range(0, 9), 2, 2)>>),
           Cat(<<Rep(Range(1, 9), 0, 1), Range(0, 9)>>) >>)
IPV4_ADDRESS_PATTERN == Cat(<<IPV4_PART, Dot, IPV4_PART, Dot, IPV4_PART, Dot, IPV4_PART>>)
IPV4_ADDRESS_REGEX == IPV4_ADDRESS_PATTERN

\* (?:SEG:) and (?::SEG)
SegColon == Cat(<<IPV6_SEGMENT, Colon>>)
ColonSeg == Cat(<<Colon, IPV6_SEGMENT>>)

IPV6_STANDARD == Cat(<<Rep(SegColon, 7, 7), IPV6_SEGMENT>>)
IPV6_COMPRESSED_1 == Cat(<<Rep(SegColon, 1, 7), Colon>>)
IPV6_COMPRESSED_2 == Cat(<<Colon, Rep(ColonSeg, 1, 7)>>)
IPV6_COMPRESSED_3 == Cat(<<Rep(SegColon, 1, 6), Colon, IPV6_SEGMENT>>)
IPV6_COMPRESSED_4 == Cat(<<Rep(SegColon, 1, 5), Rep(ColonSeg, 1, 2)>>)
IPV6_COMPRESSED_5 == Cat(<<Rep(SegColon, 1, 4), Rep(ColonSeg, 1, 3)>>)
IPV6_COMPRESSED_6 == Cat(<<Rep(SegColon, 1, 3), Rep(ColonSeg, 1, 4)>>)
IPV6_COMPRESSED_7 == Cat(<<Rep(SegColon, 1, 2), Rep(ColonSeg, 1, 5)>>)
IPV6_COMPRESSED_8 == Cat(<<IPV6_SEGMENT, Colon, Rep(ColonSeg, 1, 6)>>)
IPV6_COMPRESSED_9 == Cat(<<Colon, Colon, Rep(SegColon, 0, 5), IPV6_SEGMENT>>)
IPV6_COMPRESSED_10 == Cat(<<Colon, Colon>>)
IPV6_IPV4_MAPPED ==
    Cat(<< Alt(<< Rep(SegColon, 6, 6),
                  Cat(<<Colon, Colon, Rep(SegColon, 0, 5)>>),
                  Cat(<<Rep(SegColon, 0, 5), Colon, Colon, Rep(SegColon, 0, 5)>>) >>),
           IPV4_ADDRESS_PATTERN >>)

IPV6_COMBINED ==
    Alt(<< IPV6_STANDARD, IPV6_COMPRESSED_1, IPV6_COMPRESSED_2, IPV6_COMPRESSED_3,
           IPV6_COMPRESSED_4, IPV6_COMPRESSED_5, IPV6_COMPRESSED_6, IPV6_COMPRESSED_7,
           IPV6_COMPRESSED_8, IPV6_COMPRESSED_9, IPV6_COMPRESSED_10, IPV6_IPV4_MAPPED >>)
IPV6_VALIDATION_REGEX == IPV6_COMBINED

(***************************************************************************)
(* results of operations that may throw                                    *)
(***************************************************************************)
InvalidIPAddressError == "InvalidIPAddressError"
Ok(v) == [ok |-> TRUE, val |-> v, err |-> ""]
Throw(e) == [ok |-> FALSE, val |-> <<>>, err |-> e]

\* the rest of a function body, run with the value of r unless r threw
Then(r, Rest(_)) == IF r.ok THEN Rest(r.val) ELSE r

(***************************************************************************)
(* utils.ts: the integer codec                                             *)
(***************************************************************************)
fastIpVersion(probablyIp) ==
    IF Includes(probablyIp, ".") THEN Ok(4)
    ELSE IF Includes(probablyIp, ":") THEN Ok(6)
    ELSE Throw(InvalidIPAddressError)

\* /^\d+$/.test(part)
AllDigits(part) == part # <<>> /\ \A i \in 1..Len(part) : part[i] \in Digits

RECURSIVE Fold256Wide(_, _)
\* a faulty reduce: the octets are shifted by the width of an IPv6 group
Fold256Wide(parts, acc) ==
    IF parts = <<>> \/ acc.s # 0 THEN acc
    ELSE Fold256Wide(Tail(parts), BigOr(BigShl(acc, 16), Big(parseInt10(Head(parts)).val)))

RECURSIVE Fold256(_, _)
\* parts.reduce((acc, octet) => (acc << 8n) | BigInt(parseInt(octet, 10)), acc);
\* acc, which is never negative, is evaluated at every step, as the callback's
\* argument is
Fold256(parts, acc) ==
    IF parts = <<>> \/ acc.s # 0 THEN acc
    ELSE Fold256(Tail(parts), BigOr(BigShl(acc, 8), Big(parseInt10(Head(parts)).val)))

\* Number(part) > 255
OctetLimit(part) == NumberOf(part) > 255

\* ipv4ToBigInt from the parts of ip.split('.') on
ipv4Parts(parts) ==
    IF Len(parts) # 4 \/ \E i \in 1..Len(parts) : ~AllDigits(parts[i]) \/ OctetLimit(parts[i])
    THEN Throw(InvalidIPAddressError)
    ELSE Ok(Fold256(parts, BigZero))

ipv4ToBigInt(ip) == ipv4Parts(Split(ip, "."))

\* parts.splice(index, 1, ...Array(missingParts).fill(''))
Splice(parts, index, missingParts) ==
    SubSeq(parts, 1, index - 1) \o [i \in 1..missingParts |-> <<>>]
    \o SubSeq(parts, index + 1, Len(parts))

\* a faulty expansion: the part that '::' leaves empty is not counted,
\* missingParts = 8 - parts.length
expandOneShort(parts) ==
    IF \A i \in 1..Len(parts) : parts[i] # <<>> THEN Ok(parts)
    ELSE IF 8 - Len(parts) < 0 THEN Throw("RangeError")
    ELSE Ok(Splice(parts, MinOf({i \in 1..Len(parts) : parts[i] = <<>>}), 8 - Len(parts)))

\* Array(n) throws a RangeError for a negative n
expandIPv6Shorthand(parts) ==
    IF \A i \in 1..Len(parts) : parts[i] # <<>> THEN Ok(parts)
    ELSE IF 8 - Len(parts) + 1 < 0 THEN Throw("RangeError")
    ELSE Ok(Splice(parts, MinOf({i \in 1..Len(parts) : parts[i] = <<>>}), 8 - Len(parts) + 1))

\* /(.+)%(.+)/.exec(ip)![1]: the first group is greedy, so it ends before the
\* last '%' that has a character after it; reading [1] of no match (null) is a
\* TypeError
ZoneExec(ip) ==
    IF \A j \in 2..(Len(ip) - 1) : ip[j] # "%" THEN Throw("TypeError")
    ELSE Ok(SubSeq(ip, 1, MaxOf({j \in 2..(Len(ip) - 1) : ip[j] = "%"}) - 1))

\* /^(::ffff:)(?:(\d{1,3}\.\d{1,3}\.\d{1,3}\.\d{1,3}))$/
MappedPrefix == <<":", ":", "f", "f", "f", "f", ":">>
D13 == Rep(Chr(Digits), 1, 3)
MappedLiteral ==
    Cat(<< Colon, Colon, Chr({"f"}), Chr({"f"}), Chr({"f"}), Chr({"f"}), Colon,
           D13, Dot, D13, Dot, D13, Dot, D13 >>)

\* /^[0-9a-fA-F]*$/.test(part)
AllHex(part) == \A i \in 1..Len(part) : part[i] \in HexChars

RECURSIVE Fold65536(_, _, _)
\* for (const n of r) { number += n * 2n ** exp; exp += 16n }; number and exp,
\* which are never negative, are evaluated at every step
Fold65536(r, number, exp) ==
    IF r = <<>> \/ number.s # 0 \/ exp < 0 THEN number
    ELSE Fold65536(Tail(r), BigAdd(number, BigShl(Head(r), exp)), exp + 16)

Reverse(seq) == [i \in 1..Len(seq) |-> seq[Len(seq) + 1 - i]]

\* part.length > 4
GroupLimit(part) == Len(part) > 4

\* a faulty map that takes the groups from the last to the first
GroupNumbersBackward(parts) ==
    [i \in 1..Len(parts) |->
        IF parts[Len(parts) + 1 - i] = <<>> THEN BigZero
        ELSE Big(parseInt16(parts[Len(parts) + 1 - i]))]

\* parts.map((part) => (part === '' ? 0n : BigInt(Number.parseInt(part, 16))))
GroupNumbers(parts) ==
    [i \in 1..Len(parts) |-> IF parts[i] = <<>> THEN BigZero ELSE Big(parseInt16(parts[i]))]

\* ipv6ToBigInt from the expanded parts on
ipv6Parts(parts) ==
    IF Len(parts) # 8 \/ \E i \in 1..Len(parts) : ~AllHex(parts[i]) \/ GroupLimit(parts[i])
    THEN Throw(InvalidIPAddressError)
    ELSE Ok(Fold65536(Reverse(GroupNumbers(parts)), BigZero, 0))

\* (0x00000000000000000000ffffn << 32n) | ipv4BigInt
MappedNumber(ipv4BigInt) == Ok(BigOr(BigShl(Big(65535), 32), ipv4BigInt))

\* ipv6ToBigInt once the zone is cut off
ipv6Unzoned(ip) ==
    IF Test(MappedLiteral, ip)
    THEN Then(ipv4ToBigInt(SubSeq(ip, Len(MappedPrefix) + 1, Len(ip))), MappedNumber)
    ELSE Then(expandIPv6Shorthand(Split(ip, ":")), ipv6Parts)

ipv6ToBigInt(ip) == Then(IF Includes(ip, "%") THEN ZoneExec(ip) ELSE Ok(ip), ipv6Unzoned)

\* ipToBigInt(ip, version); version 0 stands for an omitted version
ipToBigInt(ip, version) ==
    Then(IF version = 0 THEN fastIpVersion(ip) ELSE Ok(version),
         LAMBDA v : IF v = 4 THEN ipv4ToBigInt(ip) ELSE ipv6ToBigInt(ip))

\* Number((number >> shift) & mask), the mask of width one bits
Field(number, shift, width) == BigNat(BigAnd(BigShr(number, shift), Ones(width)))

\* a faulty choice: a later run of the same length replaces the earlier one
LongerOrEqual(longest, current) ==
    IF longest = {} \/ Cardinality(current) >= Cardinality(longest) THEN current ELSE longest

\* what the loop of compressIPv6 does with longest when a run of zeros ends
Longer(longest, current) ==
    IF longest = {} \/ Cardinality(current) > Cardinality(longest) THEN current ELSE longest

RECURSIVE Scan(_, _, _, _)
\* the loop of compressIPv6 from index i on: the sets longest and current
\* (the empty set stands for null) after the last part
Scan(parts, i, longest, current) ==
    IF i > Len(parts) THEN [longest |-> longest, current |-> current]
    ELSE IF parts[i] = <<"0">> THEN Scan(parts, i + 1, longest, current \cup {i})
    ELSE IF current # {} THEN Scan(parts, i + 1, Longer(longest, current), {})
    ELSE Scan(parts, i + 1, longest, current)

\* the test after the loop
AfterScan(sc) ==
    IF (sc.longest = {} /\ sc.current # {})
       \/ (sc.current # {} /\ sc.longest # {}
           /\ Cardinality(sc.current) > Cardinality(sc.longest))
    THEN sc.current ELSE sc.longest

\* the end of the run of colons that starts at i
RunEnd(text, i) == MinOf({k \in i..Len(text) : k = Len(text) \/ text[k + 1] # ":"})

\* the run of colons that starts at i replaced by '::'
ReplaceRun(text, i) ==
    SubSeq(text, 1, i - 1) \o <<":", ":">> \o SubSeq(text, RunEnd(text, i) + 1, Len(text))

\* text.replace(/:{2,}/, '::'): the first run of two or more colons
ReplaceColons(text) ==
    IF \A i \in 1..(Len(text) - 1) : ~(text[i] = ":" /\ text[i + 1] = ":") THEN text
    ELSE ReplaceRun(text, MinOf({i \in 1..(Len(text) - 1) : text[i] = ":" /\ text[i + 1] = ":"}))

\* parts[index] = ':' for the indexes of longest, then filter(Boolean)
Marked(parts, longest) ==
    SelectSeq([i \in 1..Len(parts) |-> IF i \in longest THEN <<":">> ELSE parts[i]],
              LAMBDA p : p # <<>>)

compressIPv6(parts) ==
    ReplaceColons(Join(Marked(parts, AfterScan(Scan(parts, 1, {}, {}))), <<":">>))

\* the branch version === 4 of bigIntToIp
bigIntToIp4(number) ==
    Join([i \in 1..4 |-> DecStr(Field(number, 32 - 8 * i, 8))], <<".">>)

\* to16: the eight groups of number in hex
Groups16(number) == [i \in 1..8 |-> HexStr(Field(number, 112 - (i - 1) * 16, 16))]

\* a faulty expanded form whose groups are not padded
Unpadded(to16) == Join(to16, <<":">>)

\* to16.map((part) => part.padStart(4, '0')).join(':')
Padded(to16) == Join([i \in 1..Len(to16) |-> PadStart4(to16[i])], <<":">>)

bigIntToIp(number, version, compress) ==
    IF version = 4 THEN bigIntToIp4(number)
    ELSE IF BigShr(number, 32) = Big(65535)
    THEN MappedPrefix \o bigIntToIp4(BigAnd(number, Ones(32)))
    ELSE IF compress THEN compressIPv6(Groups16(number))
    ELSE Padded(Groups16(number))

(***************************************************************************)
(* How values are written in the state: a piece of text as a string, a     *)
(* bigint as its hexadecimal numeral ("c0a80101", "-1").                   *)
(***************************************************************************)
Chars(str) == [i \in 1..Len(str) |-> SubSeq(str, i, i)]

RECURSIVE StrIn(_, _, _)
\* the characters lo .. hi of text as a string, by halves
StrIn(text, lo, hi) ==
    IF lo > hi THEN ""
    ELSE IF lo = hi THEN text[lo]
    ELSE StrIn(text, lo, (lo + hi) \div 2) \o StrIn(text, (lo + hi) \div 2 + 1, hi)

Str(text) == StrIn(text, 1, Len(text))

\* the hex digits of x >= 0 from the highest down; 0 is written "0"
HexNat(x) == Str([i \in 1..Max2(1, Len(x.d)) |-> HexLower[DigitAt(x, Max2(1, Len(x.d)) - i) + 1]])
Hex(x) == IF x.s = 0 THEN HexNat(x) ELSE "-" \o HexNat(BigNeg(x))

UnhexNat(h) == Norm(0, [i \in 1..Len(h) |-> HexValue[SubSeq(h, Len(h) + 1 - i, Len(h) + 1 - i)]])
Unhex(h) ==
    IF Len(h) > 0 /\ SubSeq(h, 1, 1) = "-" THEN BigNeg(UnhexNat(SubSeq(h, 2, Len(h))))
    ELSE UnhexNat(h)

(***************************************************************************)
(* ipv4.ts, ipv6.ts: the address values.  An address value is a record     *)
(* [version, address]: address is the private field #address.  The two     *)
(* classes are one set of definitions, with the version of the class as a  *)
(* parameter.                                                              *)
(***************************************************************************)
\* IPv4.isValid(address), IPv6.isValid(address)
isValid(version, address) ==
    IF version = 4 THEN Test(IPV4_ADDRESS_REGEX, address)
    ELSE IF Includes(address, "/") THEN FALSE
    ELSE Test(IPV6_VALIDATION_REGEX, address)

\* new IPv4(address), new IPv6(address)
New(version, address) ==
    IF ~isValid(version, address) THEN Throw(InvalidIPAddressError)
    ELSE Then(ipToBigInt(address, version),
              LAMBDA n : Ok([version |-> version, address |-> n]))

\* IPv4.fromBigInt(value), IPv6.fromBigInt(value)
fromBigInt(version, value) == New(version, bigIntToIp(value, version, TRUE))

RECURSIVE FoldBytes(_, _)
\* bytes.reduce((acc, octet) => (acc << 8n) | BigInt(octet), acc), for octets
\* that are not negative; acc is evaluated at every step
FoldBytes(bytes, acc) ==
    IF bytes = <<>> \/ acc.s # 0 THEN acc
    ELSE FoldBytes(Tail(bytes), BigOr(BigShl(acc, 8), Big(Head(bytes))))

\* IPv4.fromBytes(bytes), IPv6.fromBytes(bytes): only IPv6 checks the length
fromBytes(version, bytes) ==
    IF version = 6 /\ Len(bytes) # 16 THEN Throw(InvalidIPAddressError)
    ELSE fromBigInt(version, FoldBytes(bytes, BigZero))

\* the getter address, toString() and toJSON()
IPaddress(x) == bigIntToIp(x.address, x.version, TRUE)

toBigInt(x) == x.address

\* IPv6: the getter expandedAddress
expandedAddress(x) == bigIntToIp(x.address, 6, FALSE)

\* hex.split(''): the characters of a text, each a text of its own
SplitChars(text) == [i \in 1..Len(text) |-> <<text[i]>>]

\* toArpa(): IPv4 reverses the parts of address between the dots, IPv6 the
\* characters of expandedAddress without its colons
toArpa(x) ==
    IF x.version = 4
    THEN Join(Reverse(Split(IPaddress(x), ".")), <<".">>) \o Chars(".in-addr.arpa")
    ELSE Join(Reverse(SplitChars(SelectSeq(expandedAddress(x), LAMBDA c : c # ":"))), <<".">>)
         \o Chars(".ip6.arpa")

\* IPv4: toIPv4Mapped()
toIPv4Mapped(x) == fromBigInt(6, BigOr(BigShl(Big(65535), 32), x.address))

\* IPv6: isIPv4Mapped()
isIPv4Mapped(x) == BigShr(x.address, 32) = Big(65535)

\* null is the value NoValue
NoValue == [version |-> 0, address |-> BigZero]

\* a faulty toIPv4 without the test of isIPv4Mapped
toIPv4Unchecked(x) == fromBigInt(4, BigAnd(x.address, Ones(32)))

\* IPv6: toIPv4()
toIPv4(x) ==
    IF ~isIPv4Mapped(x) THEN Ok(NoValue)
    ELSE fromBigInt(4, BigAnd(x.address, Ones(32)))

\* typeof other === 'string' ? new IPvN(other) : other, for other given as
\* [text |-> TRUE, val |-> a literal] or [text |-> FALSE, val |-> a value]
Operand(version, other) == IF other.text THEN New(version, other.val) ELSE Ok(other.val)

\* x.and(other)
and(x, other) ==
    Then(Operand(x.version, other),
         LAMBDA otherIp : fromBigInt(x.version, BigAnd(x.address, otherIp.address)))

\* x.or(other)
or(x, other) ==
    Then(Operand(x.version, other),
         LAMBDA otherIp : fromBigInt(x.version, BigOr(x.address, otherIp.address)))

\* x.not()
not(x) == fromBigInt(x.version, BigAnd(BigNot(x.address), MAX_IP(x.version)))

\* x.next(count)
next(x, count) == fromBigInt(x.version, BigAnd(BigAdd(x.address, count), MAX_IP(x.version)))

\* a faulty previous: the count is added
previousAdds(x, count) ==
    fromBigInt(x.version, BigAnd(BigAdd(x.address, count), MAX_IP(x.version)))

\* x.previous(count)
previous(x, count) == fromBigInt(x.version, BigAnd(BigSub(x.address, count), MAX_IP(x.version)))

(***************************************************************************)
(* cidr.ts: the CIDR value, a record [address, prefix]                     *)
(***************************************************************************)
\* the constructor from the parsed prefix on
Ranged(address, prefix) ==
    IF prefix < 0 \/ prefix > BITS(address.version) THEN Throw(InvalidIPAddressError)
    ELSE Ok([address |-> address, prefix |-> prefix])

\* the constructor from the two parts of cidr.split('/') on
Parts(addressPart, prefixPart) ==
    IF prefixPart = <<>> THEN Throw(InvalidIPAddressError)                \* !prefixPart
    ELSE IF parseInt10(prefixPart).nan THEN Throw(InvalidIPAddressError)
    ELSE Then(New(IF Includes(addressPart, ".") THEN 4 ELSE 6, addressPart),
              LAMBDA address : Ranged(address, parseInt10(prefixPart).val))

\* new CIDR(cidr); a missing second part is undefined, here the empty text
CIDRNew(cidr) == Parts(Split(cidr, "/")[1], (Split(cidr, "/") \o <<<<>>>>)[2])

\* index.ts: parseCIDR(cidr)
parseCIDR(cidr) == CIDRNew(cidr)

\* a faulty parseIP: the colon is looked for first
parseIPColonFirst(address) ==
    IF Includes(address, ".") \/ Includes(address, ":")
    THEN New(IF Includes(address, ":") THEN 6 ELSE 4, address)
    ELSE Throw(InvalidIPAddressError)

\* index.ts: parseIP(address)
parseIP(address) ==
    IF Includes(address, ".") \/ Includes(address, ":")
    THEN New(IF Includes(address, ".") THEN 4 ELSE 6, address)
    ELSE Throw(InvalidIPAddressError)

\* a faulty isValidIP: only the IPv4 validator is asked
isValidIPv4Only(maybeIP) ==
    IF maybeIP.type # "string" THEN FALSE
    ELSE isValid(4, maybeIP.text)

\* index.ts: isValidIP(maybeIP), for a value [type |-> typeof maybeIP, text |-> its
\* characters when it is a string]
isValidIP(maybeIP) ==
    IF maybeIP.type # "string" THEN FALSE
    ELSE isValid(4, maybeIP.text) \/ isValid(6, maybeIP.text)

\* a faulty netmask: MAX_IP is shifted by the prefix length
netmaskByPrefix(c) ==
    fromBigInt(c.address.version,
               BigAnd(BigShl(MAX_IP(c.address.version), c.prefix), MAX_IP(c.address.version)))

netmask(c) ==
    fromBigInt(c.address.version,
               BigAnd(BigShl(MAX_IP(c.address.version), BITS(c.address.version) - c.prefix),
                      MAX_IP(c.address.version)))

network(c) ==
    Then(netmask(c),
         LAMBDA m : fromBigInt(c.address.version, BigAnd(toBigInt(c.address), toBigInt(m))))

\* a faulty broadcast without the host mask
broadcastIsNetwork(c) == network(c)

broadcast(c) ==
    Then(network(c),
         LAMBDA n : fromBigInt(c.address.version,
                               BigOr(toBigInt(n), BigShr(MAX_IP(c.address.version), c.prefix))))

\* a faulty test: this.prefix >= 32
NarrowedBelow32(c) == c.address.version = 4 /\ ~(c.prefix >= 32)

\* this.version === 4 and not this.prefix >= 31
Narrowed(c) == c.address.version = 4 /\ ~(c.prefix >= 31)

\* a faulty first: every IPv4 block is narrowed
firstAlwaysNext(c) ==
    Then(network(c), LAMBDA n : IF c.address.version = 4 THEN next(n, Big(1)) ELSE Ok(n))

first(c) == Then(network(c), LAMBDA n : IF Narrowed(c) THEN next(n, Big(1)) ELSE Ok(n))

last(c) == Then(broadcast(c), LAMBDA b : IF Narrowed(c) THEN previous(b, Big(1)) ELSE Ok(b))

\* a faulty comparison: targetAddress < broadcastAddress
BetweenExclusive(networkAddress, targetAddress, broadcastAddress) ==
    Ok(BigLe(networkAddress, targetAddress) /\ BigLt(targetAddress, broadcastAddress))

\* targetAddress >= networkAddress && targetAddress <= broadcastAddress
Between(networkAddress, targetAddress, broadcastAddress) ==
    Ok(BigLe(networkAddress, targetAddress) /\ BigLe(targetAddress, broadcastAddress))

\* contains(ip), ip given as the operand of and / or is
contains(c, ip) ==
    Then(Operand(c.address.version, ip),
         LAMBDA a : IF a.version # c.address.version THEN Ok(FALSE)
                    ELSE Then(network(c), LAMBDA n :
                         Then(broadcast(c), LAMBDA b :
                              Between(toBigInt(n), toBigInt(a), toBigInt(b)))))

\* toString() and toJSON()
CIDRtoString(c) == IPaddress(c.address) \o <<"/">> \o DecStr(c.prefix)

(***************************************************************************)
(* ipv4.ts, ipv6.ts: the classification methods.  A method that both       *)
(* classes have is one definition with the case of each class.             *)
(***************************************************************************)
RECURSIVE DecimalFrom(_, _)
\* the bigint that the decimal digits d continue acc to: acc * 10 + digit,
\* acc evaluated at every step
DecimalFrom(d, acc) ==
    IF d = <<>> \/ acc.s # 0 THEN acc
    ELSE DecimalFrom(Tail(d), BigAdd(BigAdd(BigShl(acc, 3), BigShl(acc, 1)),
                                     Big(HexValue[Head(d)])))

\* a decimal bigint literal of the source, such as 167772160n
Decimal(literal) == DecimalFrom(Chars(literal), BigZero)

\* a faulty range test that leaves out the last address: addr < hi
WithinBelow(addr, range) == BigLe(range[1], addr) /\ BigLt(addr, range[2])

\* addr >= lo && addr <= hi, for a pair range = <<lo, hi>>
Within(addr, range) == BigLe(range[1], addr) /\ BigLe(addr, range[2])

\* the ranges of IPv4.isPrivate: 10.0.0.0/8, 172.16.0.0/12, 192.168.0.0/16
PrivateRanges ==
    << <<Decimal("167772160"), Decimal("184549375")>>,
       <<Decimal("2886729728"), Decimal("2887778303")>>,
       <<Decimal("3232235520"), Decimal("3232301055")>> >>

\* the range of IPv4.isLoopback, 127.0.0.0/8
LoopbackRange == <<Decimal("2130706432"), Decimal("2147483647")>>

\* the range of IPv4.isMulticast, 224.0.0.0/4
MulticastRange == <<Decimal("3758096384"), Decimal("4026531839")>>

\* the range of IPv4.isLinkLocal, 169.254.0.0/16
LinkLocalRange == <<Decimal("2851995648"), Decimal("2852061183")>>

\* the ranges that IPv4.isReserved tests itself, in its order
ReservedRanges ==
    << <<Decimal("0"), Decimal("16777215")>>,
       <<Decimal("1681915904"), Decimal("1686110207")>>,
       <<Decimal("3221225472"), Decimal("3221225727")>>,
       <<Decimal("3221225984"), Decimal("3221226239")>>,
       <<Decimal("3227017984"), Decimal("3227018239")>>,
       <<Decimal("3323068416"), Decimal("3323199487")>>,
       <<Decimal("3325256704"), Decimal("3325256959")>>,
       <<Decimal("3405803776"), Decimal("3405804031")>>,
       <<Decimal("4026531840"), Decimal("4294967295")>> >>

\* the prefixes that IPv6.isReserved tests, as <<shift, value>> of
\* addr >> shift === value, in its order
ReservedPrefixes ==
    << <<64, Unhex("100000000000000")>>,
       <<80, Unhex("200100020000")>>,
       <<96, Unhex("20010db8")>>,
       <<96, Unhex("20010000")>>,
       <<112, Unhex("2002")>> >>

\* IPv4: isPrivate()
isPrivate(x) == \E i \in 1..Len(PrivateRanges) : Within(x.address, PrivateRanges[i])

\* a faulty isLoopback: takes :: for an IPv6 loopback address as well
isLoopbackWide(x) ==
    IF x.version = 4 THEN BigLe(LoopbackRange[1], x.address) /\ BigLe(x.address, LoopbackRange[2])
    ELSE BigLe(x.address, Big(1))

\* isLoopback()
isLoopback(x) ==
    IF x.version = 4 THEN Within(x.address, LoopbackRange)
    ELSE x.address = Big(1)

\* isMulticast()
isMulticast(x) ==
    IF x.version = 4 THEN Within(x.address, MulticastRange)
    ELSE BigShr(x.address, 120) = Unhex("ff")

\* isLinkLocal()
isLinkLocal(x) ==
    IF x.version = 4 THEN Within(x.address, LinkLocalRange)
    ELSE BigShr(x.address, 118) = Unhex("3fa")

\* IPv6: isUniqueLocal()
isUniqueLocal(x) == BigShr(x.address, 121) = Unhex("7e")

\* isUnspecified()
isUnspecified(x) == x.address = BigZero

\* IPv4: isBroadcast()
isBroadcast(x) == x.address = Unhex("ffffffff")

\* isReserved()
isReserved(x) ==
    IF x.version = 4
    THEN \/ \E i \in 1..Len(ReservedRanges) : Within(x.address, ReservedRanges[i])
         \/ isPrivate(x) \/ isLoopback(x) \/ isLinkLocal(x) \/ isMulticast(x)
    ELSE \E i \in 1..Len(ReservedPrefixes) :
            BigShr(x.address, ReservedPrefixes[i][1]) = ReservedPrefixes[i][2]

\* isGlobalUnicast()
isGlobalUnicast(x) ==
    IF x.version = 4
    THEN ~isUnspecified(x) /\ ~isBroadcast(x) /\ ~isReserved(x)
    ELSE /\ BigShr(x.address, 125) = Big(1)
         /\ ~isUnspecified(x) /\ ~isLoopback(x) /\ ~isMulticast(x) /\ ~isLinkLocal(x)
         /\ ~isUniqueLocal(x) /\ ~isIPv4Mapped(x) /\ ~isReserved(x)

(***************************************************************************)
(* The state: the address value and the CIDR value the caller holds, the   *)
(* last call with its result, the number of calls chained on the address   *)
(* value, and the object the last method was called on, as it is after     *)
(* the call.                                                               *)
(***************************************************************************)
VARIABLES ip, cidr, ret, steps, receiver
vars == <<ip, cidr, ret, steps, receiver>>

\* the longest chain of calls x.op1(..).op2(..) on an address value
MaxSteps == 1
\* counts 1 .. MaxCount are passed to next and previous, beside the wrapping ones
MaxCount == 2

PackIP(x) == [version |-> x.version, address |-> Hex(x.address)]
UnpackIP(p) == [version |-> p.version, address |-> Unhex(p.address)]
PackCIDR(c) == [address |-> PackIP(c.address), prefix |-> c.prefix]
UnpackCIDR(p) == [address |-> UnpackIP(p.address), prefix |-> p.prefix]

NoIP == [version |-> 0, address |-> "0"]
NoCIDR == [address |-> NoIP, prefix |-> 0]

\* no method has been called on an object
NoReceiver == [ip |-> NoIP, cidr |-> NoCIDR]

\* a faulty method next that moves its receiver
AfterMoved(x, op) ==
    IF op = "next" THEN [version |-> x.version, address |-> BigAdd(x.address, Big(1))] ELSE x

\* the fields of the object x after its method op returned: #address and
\* #prefix are readonly, assigned by the constructors and by no method
After(x, op) == x

\* a call and its result: kind says what val holds ("ip": the hex of an
\* address of the given version, "bigint": a hex, "text", "bool", "cidr": the
\* text of the new CIDR, "null", or "throw" with the error's name in err);
\* src is the number that an argument was made from
Call(op, arg, arg2, kind, version, val, err, src) ==
    [op |-> op, arg |-> arg, arg2 |-> arg2, kind |-> kind, version |-> version,
     val |-> val, err |-> err, src |-> src]
NoCall == Call("", "", "", "none", 0, "", "", "")

\* the call record of a result r that is an address value, null or an error
IPCall(op, arg, arg2, r) ==
    IF ~r.ok THEN Call(op, arg, arg2, "throw", 0, "", r.err, "")
    ELSE IF r.val.version = 0 THEN Call(op, arg, arg2, "null", 0, "", "", "")
    ELSE Call(op, arg, arg2, "ip", r.val.version, Hex(r.val.address), "", "")

(***************************************************************************)
(* the inputs                                                              *)
(***************************************************************************)
V4Literals == {"0.0.0.0", "255.255.255.255", "192.168.1.100", "10.0.0.0"}
V6Literals == {"::", "::1", "2001:db8::1", "ffff:ffff:ffff:ffff:ffff:ffff:ffff:ffff",
               "::ffff:192.168.1.1", "2001:DB8:0:0:1::"}
BadLiterals == {"256.0.0.0", "1.2.3", "01.2.3.4", "1.2.3.4/24", "not an ip", "",
                "2001:db8::g", "2001::db8::1", "2001:db8::1/64", "1:2:3:4:5:6:7"}
Literals == V4Literals \cup V6Literals \cup BadLiterals

\* texts handed to the parsers and the validators: the literals, and texts on
\* which the grammar of the validators and the codec may differ
ParseTexts ==
    Literals
    \cup {"1.2.3.4.5", "1.2.3.4 ", " 1.2.3.4", "1.2.3.04", "0x1.2.3.4", "1..3.4", "1.2.3.999",
          "1:2:3:4:5:6:7:8", "1:2:3:4:5:6:7:8:9", "1::2:3:4:5:6:7:8", "1:2:3:4:5:6:7::", "1:::2",
          ":", ":::", "::g", "12345::", "1:2:3:4:5:6:1.2.3.4", "::1.2.3.4", "::ffff:1.2.3.256",
          "::ffff:01.2.3.4", "::FFFF:1.2.3.4", "fe80::1%eth0", "fe80::1%", "%eth0", "%",
          "1.2.3.4%5", "1:2:3:4:5:6:7:8::", "1:2:3:4:5:6:7:8:9::", "::/64", "abc", "1234"}

\* groups of IPv6 literals: with and without leading zeros, in both cases
ShortGroups == <<"1", "0db8", "AB", "00ff", "ffff", "0", "7">>

\* the IPv6 literal with the first left of ShortGroups, '::', and the next
\* right of them
ShortLiteral(left, right) ==
    Str(Join([i \in 1..left |-> Chars(ShortGroups[i])], <<":">>) \o <<":", ":">>
        \o Join([i \in 1..right |-> Chars(ShortGroups[left + i])], <<":">>))

\* the texts handed to ipToBigInt: those of parseIP, every place and length
\* of '::' among up to seven groups, literals of eight groups, and literals
\* with a zone
CodecTexts ==
    ParseTexts
    \cup {ShortLiteral(c[1], c[2]) : c \in {c \in (0..7) \X (0..7) : c[1] + c[2] <= 7}}
    \cup {"2001:0DB8:85a3:0000:0000:8a2e:0370:7334", "0:0:0:0:0:0:0:0", "00a:B:0c0:D:e:F:01:2"}
    \cup {"::1%1", "2001:db8::1%a%b", "2001:db8::1%%", "::%%a", "::ffff:1.2.3.4%z",
          "1:2:3:4:5:6:7:8%a:b", "::g%eth0"}

\* values that are no strings, by their typeof
NonTexts == {"undefined", "object", "number", "boolean", "bigint", "function", "symbol"}

\* the values handed to isValidIP
MaybeIPs ==
    {[type |-> "string", text |-> Chars(t), name |-> t] : t \in ParseTexts}
    \cup {[type |-> t, text |-> <<>>, name |-> t] : t \in NonTexts}

\* bigints, in and out of range
Numbers(version) ==
    IF version = 4
    THEN {"0", "1", "ff", "100", "7fffffff", "80000000", "c0a80164", "fffffffe",
          "ffffffff", "100000000", "1c0a80164", "-1"}
    ELSE {"0", "1", "10000", "ffff0000", "ffffc0a80164", "ffff00000000", "ffffffffffff",
          "1ffffc0a80164", "20010db8000000000000000000000001",
          "20010db8000000010000000000000000", "10000000100010000000100000000",
          "10001000000000001000000000000", "10000000200030004000500060007",
          "fe800000000000000000000000000000",
          "80000000000000000000000000000000", "7fffffffffffffffffffffffffffffff",
          "fffffffffffffffffffffffffffffffe", "ffffffffffffffffffffffffffffffff",
          "100000000000000000000000000000000", "-1"}

\* the hex of a bigint in the range of the version
InRange(version, number) ==
    Len(number) <= BITS(version) \div 4 /\ SubSeq(number, 1, 1) # "-"

Counts(version) ==
    {Hex(Big(k)) : k \in 1..MaxCount}
    \cup {Hex(MAX_IP(version)), Hex(BigAdd(MAX_IP(version), Big(2))), "-1"}

\* operands of and / or: address values and literals
Operands(version) ==
    IF version = 4
    THEN {[text |-> FALSE, val |-> [version |-> 4, address |-> Unhex("ffff0000")]],
          [text |-> TRUE, val |-> Chars("0.0.255.1")]}
    ELSE {[text |-> FALSE, val |-> [version |-> 6, address |-> Unhex("ffffffffffffffff0000000000000000")]],
          [text |-> TRUE, val |-> Chars("::ffff:0:1")]}

\* how an operand is written in a call record
OperandName(o) == IF o.text THEN Str(o.val) ELSE Hex(o.val.address)

\* the eight groups of every arrangement of zero and non-zero groups
GroupPatterns == [1..8 -> {0, 1}]
PatternGroups(z) == [i \in 1..8 |-> IF z[i] = 0 THEN 0 ELSE 4096 * i + 15 * (i % 3)]

\* the number with the given eight 16-bit groups, as a hex
GroupsHex(g) == Hex(UnhexNat(Str(Join([i \in 1..8 |-> PadStart4(HexStr(g[i]))], <<>>))))

\* the bigints the codec renders: per version, in range
CodecNumbers(version) ==
    {n \in Numbers(version) : InRange(version, n)}
    \cup (IF version = 4 THEN {} ELSE {GroupsHex(PatternGroups(z)) : z \in GroupPatterns})

\* byte arrays, by name: of the length of the version and not, with octets
\* within 0 .. 255 and not
ByteArrays ==
    {[name |-> "192.168.1.1", bytes |-> <<192, 168, 1, 1>>],
     [name |-> "255 x 4", bytes |-> [i \in 1..4 |-> 255]],
     [name |-> "256.0.0.0", bytes |-> <<256, 0, 0, 0>>],
     [name |-> "1.2.3.4.5", bytes |-> <<1, 2, 3, 4, 5>>],
     [name |-> "1.2.3", bytes |-> <<1, 2, 3>>],
     [name |-> "", bytes |-> <<>>],
     [name |-> "::1", bytes |-> [i \in 1..16 |-> IF i = 16 THEN 1 ELSE 0]],
     [name |-> "255 x 16", bytes |-> [i \in 1..16 |-> 255]],
     [name |-> "300 x 16", bytes |-> [i \in 1..16 |-> 300]],
     [name |-> "2001:db8::ff00:42:8329",
      bytes |-> <<32, 1, 13, 184, 0, 0, 0, 0, 0, 0, 255, 0, 0, 66, 131, 41>>],
     [name |-> "1 x 17", bytes |-> [i \in 1..17 |-> 1]]}

\* CIDR texts: addresses with every prefix length from 0 to one past the width
V4Blocks == {"192.168.1.100"}
V6Blocks == {"2001:db8::1"}
V6Prefixes == {0, 1, 3, 4, 5, 15, 16, 17, 32, 63, 64, 65, 96, 112, 120, 125, 126, 127,
               BITS6, BITS6 + 1}
GoodCIDRs ==
    {a \o "/" \o Str(DecStr(p)) : a \in V4Blocks, p \in 0..(BITS4 + 1)}
    \cup {a \o "/" \o Str(DecStr(p)) : a \in V6Blocks, p \in V6Prefixes}
    \cup {"0.0.0.0/0", "10.0.0.0/24", "255.255.255.255/30", "255.255.255.255/32", "0.0.0.0/32",
          "::/0", "ffff:ffff:ffff:ffff:ffff:ffff:ffff:ffff/127",
          "ffff:ffff:ffff:ffff:ffff:ffff:ffff:ffff/1", "::ffff:c0a8:101/100"}
OddCIDRs == {"192.168.1.1", "2001:db8::1", "192.168.1.1/", "192.168.1.1/foo",
             "192.168.1.1/24abc", "192.168.1.1/24/5", "192.168.1.1/-1", "192.168.1.1/ 8",
             "192.168.1.1/2.5", "192.168.1.1/032", "192.168.1.1/033", "256.0.0.0/24",
             "/24", "2001::g/64", "2001:db8::1/foo", "2001:db8::1/64x", "2001:db8::1//64",
             "::ffff:192.168.1.1/24", "1.2.3.4/129", "192.168.1.1/99999999999",
             "abc/24", "1234/8", "01.2.3.4/8", "1:2:3:4:5:6:1.2.3.4/64"}
CIDRTexts == GoodCIDRs \cup OddCIDRs

\* candidates of contains given as literals, each with the number it denotes
ContainLiterals ==
    {[lit |-> "192.168.1.50", version |-> 4, num |-> "c0a80132"],
     [lit |-> "192.168.2.1", version |-> 4, num |-> "c0a80201"],
     [lit |-> "2001:db8::dead:beef", version |-> 6, num |-> "20010db80000000000000000deadbeef"],
     [lit |-> "2001:db9::1", version |-> 6, num |-> "20010db9000000000000000000000001"]}

\* candidates of contains given as address values
ContainValues ==
    {[version |-> 4, address |-> "c0a80200"], [version |-> 6, address |-> "1"]}

(***************************************************************************)
(* the operations on address values                                        *)
(***************************************************************************)
\* nothing has been called yet
Fresh == ip = NoIP /\ cidr = NoCIDR /\ ret = NoCall

\* a constructor or factory of the class of the given version returned r
Made(op, arg, version, r) ==
    /\ ip' = IF r.ok THEN PackIP(r.val) ELSE ip
    /\ ret' = IPCall(op, arg, IF version = 4 THEN "IPv4" ELSE "IPv6", r)
    /\ UNCHANGED <<cidr, steps, receiver>>

\* new IPv4(address), new IPv6(address)
NewIP ==
    \E version \in {4, 6}, address \in Literals :
        Fresh /\ Made("new", address, version, New(version, Chars(address)))

\* IPv4.fromBigInt(value), IPv6.fromBigInt(value)
FromBigInt ==
    \E version \in {4, 6} :
        \E value \in Numbers(version) :
            Fresh /\ Made("fromBigInt", value, version, fromBigInt(version, Unhex(value)))

\* IPv4.fromBytes(bytes), IPv6.fromBytes(bytes)
FromBytes ==
    \E version \in {4, 6}, b \in ByteArrays :
        Fresh /\ Made("fromBytes", b.name, version, fromBytes(version, b.bytes))

\* parseIP(address)
ParseIP ==
    \E address \in ParseTexts :
        /\ Fresh
        /\ ip' = IF parseIP(Chars(address)).ok THEN PackIP(parseIP(Chars(address)).val) ELSE ip
        /\ ret' = IPCall("parseIP", address, "", parseIP(Chars(address)))
        /\ UNCHANGED <<cidr, steps, receiver>>

\* IPv4.isValid(address), IPv6.isValid(address)
IsValid ==
    \E version \in {4, 6}, address \in ParseTexts :
        /\ Fresh
        /\ ret' = Call("isValid", address, IF version = 4 THEN "IPv4" ELSE "IPv6", "bool", version,
                       IF isValid(version, Chars(address)) THEN "true" ELSE "false", "", "")
        /\ UNCHANGED <<ip, cidr, steps, receiver>>

\* isValidIP(maybeIP): typeof maybeIP is written in arg2
IsValidIP ==
    \E maybeIP \in MaybeIPs :
        /\ Fresh
        /\ ret' = Call("isValidIP", maybeIP.name, maybeIP.type, "bool", 0,
                       IF isValidIP(maybeIP) THEN "true" ELSE "false", "", "")
        /\ UNCHANGED <<ip, cidr, steps, receiver>>

\* the last call returned the address value held, and the chain may go on
Held == ret.kind = "ip" /\ ip # NoIP /\ cidr = NoCIDR

\* the caller still holds the address value after its method op returned
KeptIP(op) ==
    /\ ip' = PackIP(After(UnpackIP(ip), op))
    /\ receiver' = [ip |-> ip', cidr |-> NoCIDR]
    /\ UNCHANGED <<cidr, steps>>

\* a method of the address value held returned r: the caller goes on with the
\* result when there is one
Chained(op, arg, r) ==
    /\ steps < MaxSteps
    /\ steps' = steps + 1
    /\ receiver' = [ip |-> PackIP(After(UnpackIP(ip), op)), cidr |-> NoCIDR]
    /\ ip' = IF r.ok /\ r.val.version # 0 THEN PackIP(r.val) ELSE receiver'.ip
    /\ ret' = IPCall(op, ip.address, arg, r)
    /\ UNCHANGED cidr

NextIP ==
    \E count \in Counts(ip.version) :
        Held /\ Chained("next", count, next(UnpackIP(ip), Unhex(count)))

PreviousIP ==
    \E count \in Counts(ip.version) :
        Held /\ Chained("previous", count, previous(UnpackIP(ip), Unhex(count)))

NotIP == Held /\ Chained("not", "", not(UnpackIP(ip)))

AndIP ==
    \E other \in Operands(ip.version) :
        Held /\ Chained("and", OperandName(other), and(UnpackIP(ip), other))

OrIP ==
    \E other \in Operands(ip.version) :
        Held /\ Chained("or", OperandName(other), or(UnpackIP(ip), other))

ToIPv4Mapped == Held /\ ip.version = 4 /\ Chained("toIPv4Mapped", "", toIPv4Mapped(UnpackIP(ip)))

ToIPv4 == Held /\ ip.version = 6 /\ Chained("toIPv4", "", toIPv4(UnpackIP(ip)))

\* the getter address of the value held
Address ==
    /\ Held
    /\ ret' = Call("address", ip.address, "", "text", ip.version,
                   Str(IPaddress(UnpackIP(ip))), "", "")
    /\ KeptIP("address")

\* toArpa() of the value held
ToArpa ==
    /\ Held
    /\ ret' = Call("toArpa", ip.address, "", "text", ip.version,
                   Str(toArpa(UnpackIP(ip))), "", "")
    /\ KeptIP("toArpa")

\* parseIP of the text that toString() of the value held returned gave r:
\* arg2 is the class of that value and src its number
Reparsed(r) ==
    /\ ip' = IF r.ok THEN PackIP(r.val) ELSE ip
    /\ ret' = [IPCall("parseIP", ret.val, IF ip.version = 4 THEN "IPv4" ELSE "IPv6", r)
                  EXCEPT !.src = ip.address]
    /\ UNCHANGED <<cidr, steps, receiver>>

\* parseIP(x.toString()), toString() being the getter address
Reparse == ret.op = "address" /\ Reparsed(parseIP(Chars(ret.val)))

ToBigInt ==
    /\ Held
    /\ ret' = Call("toBigInt", ip.address, "", "bigint", ip.version,
                   Hex(toBigInt(UnpackIP(ip))), "", "")
    /\ KeptIP("toBigInt")

(***************************************************************************)
(* the classification methods, called on an address of a given number      *)
(***************************************************************************)
\* the ranges the IPv4 methods test, 0.0.0.0 and 255.255.255.255 as ranges
\* of one address
TestedRanges ==
    PrivateRanges \o <<LoopbackRange, MulticastRange, LinkLocalRange>> \o ReservedRanges
    \o << <<BigZero, BigZero>>, <<Unhex("ffffffff"), Unhex("ffffffff")>> >>

\* the prefixes the IPv6 methods test, as <<shift, value>>, :: and ::1 as
\* prefixes of 128 bits
TestedPrefixes ==
    << <<0, Unhex("0")>>, <<0, Unhex("1")>>, <<120, Unhex("ff")>>, <<118, Unhex("3fa")>>,
       <<121, Unhex("7e")>>, <<32, Unhex("ffff")>>, <<125, Unhex("1")>> >>
    \o ReservedPrefixes

\* the first and last number of a range and the numbers next to them
Edges(lo, hi) ==
    {Hex(BigSub(lo, Big(1))), Hex(lo), Hex(BigAdd(lo, Big(1))),
     Hex(BigSub(hi, Big(1))), Hex(hi), Hex(BigAdd(hi, Big(1)))}

\* the numbers of the addresses that are classified: the edges of every
\* range the methods test, and the address values
Receivers(version) ==
    {n \in Numbers(version)
           \cup (IF version = 4
                 THEN UNION {Edges(TestedRanges[i][1], TestedRanges[i][2]) :
                                i \in 1..Len(TestedRanges)}
                 ELSE UNION {Edges(BigShl(TestedPrefixes[i][2], TestedPrefixes[i][1]),
                                   BigOr(BigShl(TestedPrefixes[i][2], TestedPrefixes[i][1]),
                                         Ones(TestedPrefixes[i][1]))) :
                                i \in 1..Len(TestedPrefixes)}) :
        InRange(version, n)}

\* the method op of the address x returned the boolean b
Classified(op, x, b) ==
    /\ Fresh
    /\ ip' = PackIP(After(x, op))
    /\ receiver' = [ip |-> ip', cidr |-> NoCIDR]
    /\ ret' = Call(op, Hex(x.address), "", "bool", x.version,
                   IF b THEN "true" ELSE "false", "", "")
    /\ UNCHANGED <<cidr, steps>>

\* the address of a class whose number is n
Of(version, n) == [version |-> version, address |-> Unhex(n)]

IsPrivate ==
    \E n \in Receivers(4) : Classified("isPrivate", Of(4, n), isPrivate(Of(4, n)))

IsLoopback ==
    \E version \in {4, 6} : \E n \in Receivers(version) :
        Classified("isLoopback", Of(version, n), isLoopback(Of(version, n)))

IsMulticast ==
    \E version \in {4, 6} : \E n \in Receivers(version) :
        Classified("isMulticast", Of(version, n), isMulticast(Of(version, n)))

IsLinkLocal ==
    \E version \in {4, 6} : \E n \in Receivers(version) :
        Classified("isLinkLocal", Of(version, n), isLinkLocal(Of(version, n)))

IsUniqueLocal ==
    \E n \in Receivers(6) : Classified("isUniqueLocal", Of(6, n), isUniqueLocal(Of(6, n)))

IsIPv4Mapped ==
    \E n \in Receivers(6) : Classified("isIPv4Mapped", Of(6, n), isIPv4Mapped(Of(6, n)))

IsUnspecified ==
    \E version \in {4, 6} : \E n \in Receivers(version) :
        Classified("isUnspecified", Of(version, n), isUnspecified(Of(version, n)))

IsBroadcast ==
    \E n \in Receivers(4) : Classified("isBroadcast", Of(4, n), isBroadcast(Of(4, n)))

IsReserved ==
    \E version \in {4, 6} : \E n \in Receivers(version) :
        Classified("isReserved", Of(version, n), isReserved(Of(version, n)))

IsGlobalUnicast ==
    \E version \in {4, 6} : \E n \in Receivers(version) :
        Classified("isGlobalUnicast", Of(version, n), isGlobalUnicast(Of(version, n)))

(***************************************************************************)
(* the codec, called directly                                              *)
(***************************************************************************)
BigIntToIp ==
    \E version \in {4, 6}, compress \in BOOLEAN :
        \E number \in CodecNumbers(version) :
            /\ Fresh
            /\ version = 4 => compress
            /\ ret' = Call("bigIntToIp", number, IF compress THEN "compress" ELSE "expanded",
                           "text", version, Str(bigIntToIp(Unhex(number), version, compress)),
                           "", number)
            /\ UNCHANGED <<ip, cidr, steps, receiver>>

\* the call record of ipToBigInt(text, version) that returned r
Parsed(text, version, src, r) ==
    IF r.ok
    THEN Call("ipToBigInt", text, IF version = 0 THEN "auto" ELSE "version", "bigint",
              ret.version, Hex(r.val), "", src)
    ELSE Call("ipToBigInt", text, IF version = 0 THEN "auto" ELSE "version", "throw",
              ret.version, "", r.err, src)

\* the text that bigIntToIp returned is parsed, with the version or without
IpToBigInt ==
    \E version \in {0, ret.version} :
        /\ ret.op = "bigIntToIp"
        /\ ret' = Parsed(ret.val, version, ret.src, ipToBigInt(Chars(ret.val), version))
        /\ UNCHANGED <<ip, cidr, steps, receiver>>

\* the call record of ipToBigInt(text, version) that returned r: arg2 is
\* the version argument, "omitted" when there is none
ParsedText(text, version, r) ==
    Call("ipToBigInt", text, IF version = 0 THEN "omitted" ELSE IF version = 4 THEN "4" ELSE "6",
         IF r.ok THEN "bigint" ELSE "throw", version, IF r.ok THEN Hex(r.val) ELSE "",
         IF r.ok THEN "" ELSE r.err, "")

\* ipToBigInt(ip, version), ipToBigInt(ip) on a text
IpToBigIntText ==
    \E version \in {0, 4, 6}, text \in CodecTexts :
        /\ Fresh
        /\ ret' = ParsedText(text, version, ipToBigInt(Chars(text), version))
        /\ UNCHANGED <<ip, cidr, steps, receiver>>

(***************************************************************************)
(* the operations on CIDR values                                           *)
(***************************************************************************)
\* new CIDR(text), called directly or through parseCIDR, returned r
MadeCIDR(text, how, r) ==
    /\ cidr' = IF r.ok THEN PackCIDR(r.val) ELSE cidr
    /\ ret' = IF r.ok
              THEN Call("new CIDR", text, how, "cidr", r.val.address.version, text, "", "")
              ELSE Call("new CIDR", text, how, "throw", 0, "", r.err, "")
    /\ UNCHANGED <<ip, steps, receiver>>

NewCIDR == \E text \in CIDRTexts : Fresh /\ MadeCIDR(text, "new", CIDRNew(Chars(text)))

ParseCIDR == \E text \in CIDRTexts : Fresh /\ MadeCIDR(text, "parseCIDR", parseCIDR(Chars(text)))

\* the last call constructed the CIDR value held
HeldCIDR == ret.kind = "cidr" /\ cidr # NoCIDR

\* the caller still holds the CIDR value after its method op returned
KeptCIDR(op) ==
    /\ cidr' = PackCIDR(After(UnpackCIDR(cidr), op))
    /\ receiver' = [ip |-> NoIP, cidr |-> cidr']
    /\ UNCHANGED <<ip, steps>>

\* a getter of the CIDR value held returned r
Got(op, r) ==
    /\ HeldCIDR
    /\ ret' = IPCall(op, ret.arg, "", r)
    /\ KeptCIDR(op)

Netmask == Got("netmask", netmask(UnpackCIDR(cidr)))
Network == Got("network", network(UnpackCIDR(cidr)))
Broadcast == Got("broadcast", broadcast(UnpackCIDR(cidr)))
First == Got("first", first(UnpackCIDR(cidr)))
Last == Got("last", last(UnpackCIDR(cidr)))

\* the value x as a candidate of contains
Candidate(how, x) ==
    [text |-> FALSE, lit |-> <<>>, ip |-> x, how |-> how, name |-> Hex(x.address),
     version |-> x.version, num |-> Hex(x.address)]

\* the address value delta away from x, wrapping
Away(x, delta) ==
    [version |-> x.version,
     address |-> BigAnd(BigAdd(x.address, delta), MAX_IP(x.version))]

\* the address value that a getter returned and its two neighbours
Around(how, r) ==
    IF ~r.ok THEN {}
    ELSE {Candidate(how, r.val), Candidate(how \o "-1", Away(r.val, Unhex("-1"))),
          Candidate(how \o "+1", Away(r.val, Big(1)))}

\* the candidates of contains: values of both versions, the CIDR's own
\* address, network and broadcast addresses with their neighbours, and
\* literals of both versions
Candidates(c) ==
    {Candidate("value", UnpackIP(x)) : x \in ContainValues}
    \cup {Candidate("address", c.address)}
    \cup Around("network", network(c)) \cup Around("broadcast", broadcast(c))
    \cup {[text |-> TRUE, lit |-> Chars(x.lit), ip |-> NoValue, how |-> "literal",
           name |-> x.lit, version |-> x.version, num |-> x.num] : x \in ContainLiterals}

\* contains(x) returned r
Contained(x, r) ==
    /\ ret' = IF r.ok
              THEN Call("contains", x.name, x.how, "bool", x.version,
                        IF r.val THEN "true" ELSE "false", "", x.num)
              ELSE Call("contains", x.name, x.how, "throw", x.version, "", r.err, x.num)
    /\ KeptCIDR("contains")

Contains ==
    /\ HeldCIDR
    /\ \E x \in Candidates(UnpackCIDR(cidr)) :
            Contained(x, contains(UnpackCIDR(cidr),
                                  IF x.text THEN [text |-> TRUE, val |-> x.lit]
                                  ELSE [text |-> FALSE, val |-> x.ip]))

CIDRToString ==
    /\ HeldCIDR
    /\ ret' = Call("toString", ret.arg, "", "text", cidr.address.version,
                   Str(CIDRtoString(UnpackCIDR(cidr))), "", "")
    /\ KeptCIDR("toString")

Init ==
    /\ ip = NoIP
    /\ cidr = NoCIDR
    /\ ret = NoCall
    /\ steps = 0
    /\ receiver = NoReceiver

Next ==
    \/ NewIP \/ FromBigInt \/ FromBytes \/ ParseIP \/ IsValid \/ IsValidIP
    \/ IsPrivate \/ IsLoopback \/ IsMulticast \/ IsLinkLocal \/ IsUniqueLocal
    \/ IsIPv4Mapped \/ IsUnspecified \/ IsBroadcast \/ IsReserved \/ IsGlobalUnicast
    \/ NextIP \/ PreviousIP \/ NotIP \/ AndIP \/ OrIP \/ ToIPv4Mapped \/ ToIPv4
    \/ Address \/ ToBigInt \/ ToArpa \/ Reparse
    \/ BigIntToIp \/ IpToBigInt \/ IpToBigIntText
    \/ NewCIDR \/ ParseCIDR \/ Netmask \/ Network \/ Broadcast \/ First \/ Last
    \/ Contains \/ CIDRToString

Spec == Init /\ [][Next]_vars

(***************************************************************************)
(* The claims.  The numbers they compare with are built here from the      *)
(* bits of the stored address, not with the operations of the library.     *)
(***************************************************************************)
\* the number below 2^bits whose bit i is Bit(i)
FromBits(bits, Bit(_)) ==
    Norm(0, [j \in 1..(bits \div 4) |->
               Bit(4 * j - 4) + 2 * Bit(4 * j - 3) + 4 * Bit(4 * j - 2) + 8 * Bit(4 * j - 1)])

\* the address, the prefix length and the width of the CIDR value held
HeldAddress == Unhex(cidr.address.address)
HeldPrefix == cidr.prefix
HeldBits == IF cidr.address.version = 4 THEN 32 ELSE 128

\* the high p bits set
MaskNumber == FromBits(HeldBits, LAMBDA i : IF i >= HeldBits - HeldPrefix THEN 1 ELSE 0)

\* the address with its low bits - p bits cleared
NetworkNumber ==
    FromBits(HeldBits, LAMBDA i : IF i >= HeldBits - HeldPrefix THEN BitAt(HeldAddress, i) ELSE 0)

\* the address with its low bits - p bits set
BroadcastNumber ==
    FromBits(HeldBits, LAMBDA i : IF i >= HeldBits - HeldPrefix THEN BitAt(HeldAddress, i) ELSE 1)

\* n mod 2^bits
Wrapped(n, bits) == FromBits(bits, LAMBDA i : BitAt(n, i))

\* the version of the class named in a call record
ClassVersion(name) == IF name = "IPv4" THEN 4 ELSE 6

\* C1: every address value that exists, whatever constructor, factory or
\* operation made it, holds an integer in 0 .. 2^bits - 1, bits being 32 for
\* IPv4 and 128 for IPv6
C1_Range ==
    /\ ip # NoIP => ip.version \in {4, 6} /\ InRange(ip.version, ip.address)
    /\ cidr # NoCIDR =>
          cidr.address.version \in {4, 6}
          /\ InRange(cidr.address.version, cidr.address.address)
    /\ ret.kind = "ip" => ret.version \in {4, 6} /\ InRange(ret.version, ret.val)

\* an address value made by fromBigInt from a number above the range
C1_Witness ==
    /\ ret.op = "fromBigInt" /\ ret.arg = "1c0a80164" /\ ret.kind = "ip"
    /\ ip = [version |-> 4, address |-> "c0a80164"]

\* C2: for every n in 0 .. 2^bits - 1 the text that bigIntToIp renders, compressed
\* or not, parses back to n with the codec of the same version; fromBigInt(n)
\* does not fail and the value it returns holds n, which toBigInt() returns
C2_RoundTrip ==
    /\ ret.op = "ipToBigInt" /\ ret.arg2 = "version" =>
          ret.kind = "bigint" /\ ret.val = ret.src
    /\ ret.op = "fromBigInt" /\ InRange(ClassVersion(ret.arg2), ret.arg) =>
          ret.kind = "ip" /\ ret.version = ClassVersion(ret.arg2) /\ ret.val = ret.arg
          /\ ip.address = ret.arg
    /\ ret.op = "toBigInt" => ret.kind = "bigint" /\ ret.val = ip.address

\* a compressed text with a run of zero groups in the middle was parsed back
C2_Witness ==
    /\ ret.op = "ipToBigInt" /\ ret.arg2 = "version" /\ ret.arg = "2001:db8::1"
    /\ ret.val = "20010db8000000000000000000000001"

\* C3: for every prefix length p in 0 .. bits, netmask has exactly its high p
\* bits set, network is the address with its low bits - p bits cleared, and
\* broadcast is the address with its low bits - p bits set
C3_Masks ==
    /\ ret.op = "netmask" =>
          ret.kind = "ip" /\ ret.version = cidr.address.version /\ ret.val = Hex(MaskNumber)
    /\ ret.op = "network" =>
          ret.kind = "ip" /\ ret.version = cidr.address.version /\ ret.val = Hex(NetworkNumber)
    /\ ret.op = "broadcast" =>
          ret.kind = "ip" /\ ret.version = cidr.address.version
          /\ ret.val = Hex(BroadcastNumber)

\* the broadcast address of 192.168.1.100/21, 192.168.7.255
C3_Witness ==
    /\ ret.op = "broadcast" /\ cidr.address = [version |-> 4, address |-> "c0a80164"]
    /\ cidr.prefix = 21 /\ ret.val = "c0a807ff"

\* C4: an IPv4 block of prefix length 31 or 32 has first = network and
\* last = broadcast; an IPv4 block of prefix length at most 30 has
\* first = network + 1 and last = broadcast - 1; an IPv6 block has
\* first = network and last = broadcast
C4_FirstLast ==
    /\ ret.op = "first" =>
          /\ ret.kind = "ip" /\ ret.version = cidr.address.version
          /\ ret.val = IF cidr.address.version = 4 /\ cidr.prefix <= 30
                       THEN Hex(BigAdd(NetworkNumber, Big(1)))
                       ELSE Hex(NetworkNumber)
    /\ ret.op = "last" =>
          /\ ret.kind = "ip" /\ ret.version = cidr.address.version
          /\ ret.val = IF cidr.address.version = 4 /\ cidr.prefix <= 30
                       THEN Hex(BigSub(BroadcastNumber, Big(1)))
                       ELSE Hex(BroadcastNumber)

\* the last usable address of 192.168.1.100/30, 192.168.1.102
C4_Witness ==
    /\ ret.op = "last" /\ cidr.address = [version |-> 4, address |-> "c0a80164"]
    /\ cidr.prefix = 30 /\ ret.val = "c0a80166"

\* C5: for every CIDR value network <= last and first <= last, and
\* contains(network) and contains(broadcast) are true
C5_Order ==
    /\ ret.op = "last" =>
          /\ ret.kind = "ip"
          /\ network(UnpackCIDR(cidr)).ok /\ first(UnpackCIDR(cidr)).ok
          /\ BigLe(network(UnpackCIDR(cidr)).val.address, Unhex(ret.val))
          /\ BigLe(first(UnpackCIDR(cidr)).val.address, Unhex(ret.val))
    /\ ret.op = "contains" /\ ret.arg2 \in {"network", "broadcast"} =>
          ret.kind = "bool" /\ ret.val = "true"

\* the one-address block 192.168.1.100/32, where first = last
C5_Witness ==
    /\ ret.op = "last" /\ cidr.address = [version |-> 4, address |-> "c0a80164"]
    /\ cidr.prefix = 32 /\ ret.val = "c0a80164"

\* C6: for a candidate of the version of the CIDR value, given as an address
\* value or as a literal, contains is true exactly when
\* network <= candidate <= broadcast
C6_Contains ==
    ret.op = "contains" /\ ret.version = cidr.address.version =>
        /\ ret.kind = "bool"
        /\ (ret.val = "true") <=> (/\ BigLe(NetworkNumber, Unhex(ret.src))
                                   /\ BigLe(Unhex(ret.src), BroadcastNumber))

\* the literal 192.168.2.1 lies in 192.168.1.100/22, outside the /24 of the
\* stored address
C6_Witness ==
    /\ ret.op = "contains" /\ ret.arg2 = "literal" /\ ret.arg = "192.168.2.1"
    /\ cidr.address = [version |-> 4, address |-> "c0a80164"] /\ cidr.prefix = 22
    /\ ret.val = "true"

\* the text before the first '/' of a CIDR text and the text after it
BeforeSlash(text) == SubSeq(text, 1, MinOf(Places(text, "/")) - 1)
AfterSlash(text) == SubSeq(text, MinOf(Places(text, "/")) + 1, Len(text))

\* the width of the version that the literal a is valid in, 0 when in none
WidthOf(a) == IF isValid(4, a) THEN 32 ELSE IF isValid(6, a) THEN 128 ELSE 0

\* C7: contains returns false and does not raise for a candidate of the
\* other version than the CIDR value, given as an address value or as a
\* literal
C7_OtherVersion ==
    ret.op = "contains" /\ ret.version # cidr.address.version =>
        ret.kind = "bool" /\ ret.val = "false"

\* C8: a CIDR constructed from a valid literal without '/' has the full
\* prefix length, 32 or 128, the address of the literal, and the text
\* literal/32 or literal/128
C8_BareLiteral ==
    ret.op = "new CIDR" /\ ~Includes(Chars(ret.arg), "/") /\ WidthOf(Chars(ret.arg)) # 0 =>
        /\ ret.kind = "cidr"
        /\ cidr.prefix = WidthOf(Chars(ret.arg))
        /\ New(cidr.address.version, Chars(ret.arg)).val = UnpackIP(cidr.address)
        /\ CIDRtoString(UnpackCIDR(cidr))
              = Chars(ret.arg) \o <<"/">> \o DecStr(WidthOf(Chars(ret.arg)))

\* C9: constructing a CIDR from a/p fails with InvalidIPAddressError when p is
\* empty, is not made of decimal digits only, or is a number above the width
\* of the version, and when a is no valid literal; every CIDR value
\* constructed has 0 <= prefix <= bits
C9_Rejected ==
    /\ ret.op = "new CIDR" /\ Includes(Chars(ret.arg), "/")
       /\ (\/ ~AllDigits(AfterSlash(Chars(ret.arg)))
           \/ WidthOf(BeforeSlash(Chars(ret.arg))) = 0
           \/ NumberOf(AfterSlash(Chars(ret.arg))) > WidthOf(BeforeSlash(Chars(ret.arg))))
       => ret.kind = "throw" /\ ret.err = InvalidIPAddressError /\ cidr = NoCIDR
    /\ cidr # NoCIDR => 0 <= cidr.prefix /\ cidr.prefix <= HeldBits

\* C10: next(k) and previous(k) return the address of (x + k) mod 2^bits and
\* (x - k) mod 2^bits and do not raise; the highest address is followed by
\* the zero address and the zero address is preceded by the highest
C10_Wrap ==
    /\ ret.op = "next" =>
          /\ ret.kind = "ip"
          /\ ret.val = Hex(Wrapped(BigAdd(Unhex(ret.arg), Unhex(ret.arg2)), BITS(ret.version)))
          /\ ret.arg = Hex(Ones(BITS(ret.version))) /\ ret.arg2 = "1" => ret.val = "0"
    /\ ret.op = "previous" =>
          /\ ret.kind = "ip"
          /\ ret.val = Hex(Wrapped(BigSub(Unhex(ret.arg), Unhex(ret.arg2)), BITS(ret.version)))
          /\ ret.arg = "0" /\ ret.arg2 = "1" => ret.val = Hex(Ones(BITS(ret.version)))

\* the IPv6 zero address stepped back by one
C10_Witness ==
    /\ ret.op = "previous" /\ ret.arg = "0" /\ ret.arg2 = "1" /\ ret.version = 6
    /\ ret.val = "ffffffffffffffffffffffffffffffff"

(***************************************************************************)
(* The compressed rendering, read off the number that was rendered         *)
(***************************************************************************)
\* group i (1 .. 8, from the left) of the number n given as a hex
GroupOf(n, i) ==
    DigitAt(Unhex(n), 32 - 4 * i) + 16 * DigitAt(Unhex(n), 33 - 4 * i)
    + 256 * DigitAt(Unhex(n), 34 - 4 * i) + 4096 * DigitAt(Unhex(n), 35 - 4 * i)

\* the number n has the form ::ffff:a.b.c.d
MappedForm(n) == GroupOf(n, 6) = 65535 /\ \A i \in 1..5 : GroupOf(n, i) = 0

\* the groups at which a maximal run of zero groups of n starts
RunStarts(n) == {i \in 1..8 : GroupOf(n, i) = 0 /\ (i = 1 \/ GroupOf(n, i - 1) # 0)}

\* the length of the run of zero groups of n that starts at group i
RunLength(n, i) == Cardinality({k \in 1..(9 - i) : \A j \in i..(i + k - 1) : GroupOf(n, j) = 0})

\* the start of the leftmost run among the longest ones
LeftmostLongest(n) ==
    CHOOSE i \in RunStarts(n) :
        \A j \in RunStarts(n) :
            RunLength(n, j) < RunLength(n, i) \/ (RunLength(n, j) = RunLength(n, i) /\ i <= j)

\* the groups from .. to of n in lowercase hex without leading zeros, with colons between
Plain(n, from, to) == Join([i \in 1..(to - from + 1) |-> HexStr(GroupOf(n, from + i - 1))], <<":">>)

\* n with the run of zero groups that starts at group i written as '::'
WithRun(n, i) ==
    Plain(n, 1, i - 1) \o <<":", ":">> \o Plain(n, i + RunLength(n, i), 8)

\* the number of places at which the string text has '::'
DoubleColons(text) == Cardinality({i \in 1..(Len(text) - 1) : SubSeq(text, i, i + 1) = "::"})

\* the last call rendered an IPv6 number that is not IPv4-mapped, compressed
Compressed ==
    /\ ret.op = "bigIntToIp" /\ ret.version = 6 /\ ret.arg2 = "compress"
    /\ ~MappedForm(ret.src)

\* C11: the compressed rendering of an IPv6 number that is not IPv4-mapped and
\* has a zero group writes '::' for exactly one run of zero groups, the
\* leftmost of the longest ones, and every other group, zero or not, in
\* lowercase hex without leading zeros; no rendering has more than one '::'
C11_LeftmostLongest ==
    Compressed =>
        /\ DoubleColons(ret.val) <= 1
        /\ RunStarts(ret.src) # {} =>
              ret.val = Str(WithRun(ret.src, LeftmostLongest(ret.src)))

\* two runs of two zero groups each, and a single zero group between them:
\* the left run is the one written as '::'
C11_Witness ==
    /\ Compressed
    /\ RunStarts(ret.src) = {2, 5, 7}
    /\ RunLength(ret.src, 2) = 2 /\ RunLength(ret.src, 5) = 1 /\ RunLength(ret.src, 7) = 2
    /\ DoubleColons(ret.val) = 1 /\ SubSeq(ret.val, 5, 6) = "::"

\* C12: the compressed rendering of an IPv6 number whose zero groups are all
\* single (no two zero groups are neighbours) has no '::': every group,
\* the zero groups as '0', is written out
C12_LoneZero ==
    Compressed /\ (\A i \in RunStarts(ret.src) : RunLength(ret.src, i) = 1) =>
        ret.val = Str(Plain(ret.src, 1, 8)) /\ DoubleColons(ret.val) = 0

\* the version argument of the last call of ipToBigInt on a text; 0 when omitted
VersionGiven == IF ret.arg2 = "4" THEN 4 ELSE IF ret.arg2 = "6" THEN 6 ELSE 0

\* C13: for every text s and each version v, the validator of v accepts s
\* exactly when ipToBigInt(s, v) returns a value
C13_Lockstep ==
    ret.op = "ipToBigInt" /\ ret.arg2 \in {"4", "6"} =>
        (isValid(VersionGiven, Chars(ret.arg)) <=> ret.kind = "bigint")

\* C14: a parse or a construction from text that fails raises
\* InvalidIPAddressError and no other kind of error
C14_OneErrorKind ==
    ret.op \in {"ipToBigInt", "new", "parseIP", "new CIDR"} /\ ret.kind = "throw" =>
        ret.err = InvalidIPAddressError

\* C15: fromBigInt of a number below 0 or above 2^bits - 1 fails with
\* InvalidIPAddressError and makes no address value
C15_OutOfRange ==
    ret.op = "fromBigInt" /\ ~InRange(ClassVersion(ret.arg2), ret.arg) =>
        ret.kind = "throw" /\ ret.err = InvalidIPAddressError /\ ip = NoIP

\* the byte array that the last call of fromBytes was given
BytesGiven == (CHOOSE b \in ByteArrays : b.name = ret.arg).bytes

\* C16: fromBytes of a byte array of another length than 4 (IPv4) or 16 (IPv6)
\* fails with InvalidIPAddressError and makes no address value
C16_WrongLength ==
    ret.op = "fromBytes" /\ Len(BytesGiven) # BITS(ClassVersion(ret.arg2)) \div 8 =>
        ret.kind = "throw" /\ ret.err = InvalidIPAddressError /\ ip = NoIP

\* the version that a text is taken for: 4 with a '.', else 6 with a ':',
\* else none (0)
Detected(a) == IF Includes(a, ".") THEN 4 ELSE IF Includes(a, ":") THEN 6 ELSE 0

\* the outcome that the rule of detection gives for the text a: the address
\* value of the version detected, or InvalidIPAddressError
ByRule(a) == IF Detected(a) = 0 THEN Throw(InvalidIPAddressError) ELSE New(Detected(a), a)

\* the last call made a CIDR, or failed to, from a text a/p of one '/' and a
\* decimal p within the range of the version detected for a
RangedCIDR ==
    /\ ret.op = "new CIDR" /\ Cardinality(Places(Chars(ret.arg), "/")) = 1
    /\ AllDigits(AfterSlash(Chars(ret.arg)))
    /\ NumberOf(AfterSlash(Chars(ret.arg)))
          <= (IF Detected(BeforeSlash(Chars(ret.arg))) = 4 THEN 32 ELSE 128)

C18_IsValidIP ==
    ret.op = "isValidIP" =>
        /\ ret.kind = "bool"
        /\ ret.arg2 # "string" => ret.val = "false"
        /\ ret.arg2 = "string" =>
              /\ (ret.val = "true")
                    <=> (isValid(4, Chars(ret.arg)) \/ isValid(6, Chars(ret.arg)))
              /\ ret.arg = "" \/ Includes(Chars(ret.arg), "/") => ret.val = "false"

\* an IPv6 literal in CIDR notation is no valid address, while the bare
\* literal is valid for IPv6 only
C18_Witness ==
    /\ ret.op = "isValidIP" /\ ret.arg = "2001:db8::1/64" /\ ret.val = "false"
    /\ isValid(6, Chars("2001:db8::1")) /\ ~isValid(4, Chars("2001:db8::1"))


\* the number of the address on which the method of ret was called
Classed == Unhex(ret.arg)

\* bit i of the IPv4 address with the octets o
OctetBit(o, i) == (o[4 - (i \div 8)] \div (2 ^ (i % 8))) % 2

\* the number n lies in the IPv4 block of the octets o and the prefix length p
InBlock4(n, o, p) == \A i \in (32 - p)..31 : BitAt(n, i) = OctetBit(o, i)

\* the number n lies in one of the blocks of the set
InBlocks4(n, blocks) == \E b \in blocks : InBlock4(n, b[1], b[2])

Private4 == {<<<<10, 0, 0, 0>>, 8>>, <<<<172, 16, 0, 0>>, 12>>, <<<<192, 168, 0, 0>>, 16>>}
Loopback4 == {<<<<127, 0, 0, 0>>, 8>>}
LinkLocal4 == {<<<<169, 254, 0, 0>>, 16>>}
Multicast4 == {<<<<224, 0, 0, 0>>, 4>>}
Reserved4 ==
    {<<<<0, 0, 0, 0>>, 8>>, <<<<100, 64, 0, 0>>, 10>>, <<<<192, 0, 0, 0>>, 24>>,
     <<<<192, 0, 2, 0>>, 24>>, <<<<192, 88, 99, 0>>, 24>>, <<<<198, 18, 0, 0>>, 15>>,
     <<<<198, 51, 100, 0>>, 24>>, <<<<203, 0, 113, 0>>, 24>>, <<<<240, 0, 0, 0>>, 4>>}
    \cup Private4 \cup Loopback4 \cup LinkLocal4 \cup Multicast4

\* the answer of the method of ret is yes exactly when b holds
Answers(b) == ret.val = (IF b THEN "true" ELSE "false")

\* C19: on an IPv4 address each classification method is true exactly on
\* the ranges of the table: isPrivate on 10.0.0.0/8, 172.16.0.0/12 and
\* 192.168.0.0/16, isLoopback on 127.0.0.0/8, isLinkLocal on 169.254.0.0/16,
\* isMulticast on 224.0.0.0/4, isUnspecified on 0 only, isBroadcast on
\* 0xFFFFFFFF only, isReserved on the nine reserved blocks and the private,
\* loopback, link-local and multicast ranges, isGlobalUnicast on what is not
\* unspecified, not broadcast and not reserved; so the first and the last
\* address of a range are inside it and their outer neighbours outside
C19_Ranges4 ==
    ret.kind = "bool" /\ ret.version = 4 =>
        /\ ret.op = "isPrivate" => Answers(InBlocks4(Classed, Private4))
        /\ ret.op = "isLoopback" => Answers(InBlocks4(Classed, Loopback4))
        /\ ret.op = "isLinkLocal" => Answers(InBlocks4(Classed, LinkLocal4))
        /\ ret.op = "isMulticast" => Answers(InBlocks4(Classed, Multicast4))
        /\ ret.op = "isUnspecified" => Answers(\A i \in 0..31 : BitAt(Classed, i) = 0)
        /\ ret.op = "isBroadcast" => Answers(\A i \in 0..31 : BitAt(Classed, i) = 1)
        /\ ret.op = "isReserved" => Answers(InBlocks4(Classed, Reserved4))
        /\ ret.op = "isGlobalUnicast" =>
              Answers(/\ \E i \in 0..31 : BitAt(Classed, i) = 1
                      /\ \E i \in 0..31 : BitAt(Classed, i) = 0
                      /\ ~InBlocks4(Classed, Reserved4))

\* 172.31.255.255, the last address of 172.16.0.0/12, is private
C19_Witness ==
    ret.op = "isPrivate" /\ ret.version = 4 /\ ret.arg = "ac1fffff" /\ ret.val = "true"

\* bit j of a number v below 2^31, zero from bit 31 on
NatBit(v, j) == IF j <= 30 THEN (v \div (2 ^ j)) % 2 ELSE 0

\* the top p bits of the 128-bit number n are the number v
Top(n, p, v) == \A j \in 0..(p - 1) : BitAt(n, 128 - p + j) = NatBit(v, j)

\* group k of the address that leads with the groups g and is zero after
Lead(g, k) == IF k <= Len(g) THEN Unhex(g[k]) ELSE BigZero

\* the number n lies in the IPv6 block of the leading groups g and the
\* prefix length p
InBlock6(n, g, p) ==
    \A i \in (128 - p)..127 : BitAt(n, i) = BitAt(Lead(g, 8 - (i \div 16)), i % 16)

Reserved6 ==
    {<<<<"100">>, 64>>, <<<<"2001", "2">>, 48>>, <<<<"2001", "db8">>, 32>>,
     <<<<"2001">>, 32>>, <<<<"2002">>, 16>>}

InReserved6(n) == \E b \in Reserved6 : InBlock6(n, b[1], b[2])

Fits(h, bits) == SubSeq(h, 1, 1) # "-" /\ Len(h) <= bits \div 4

\* C21: toIPv4Mapped() of an IPv4 address v is the IPv6 address of the
\* number (0xffff << 32) | v, which isIPv4Mapped() and whose toIPv4() is v;
\* toIPv4() of an IPv6 address returns the IPv4 address of its low 32 bits
\* when the top 96 bits are 0xffff and null, without an error, when not
C21_Mapping ==
    /\ ret.op = "toIPv4Mapped" =>
          /\ ret.kind = "ip" /\ ret.version = 6 /\ Fits(ret.val, 128)
          /\ \A i \in 0..127 :
                BitAt(Unhex(ret.val), i) = IF i < 32 THEN BitAt(Unhex(ret.arg), i)
                                           ELSE IF i < 48 THEN 1 ELSE 0
          /\ isIPv4Mapped([version |-> 6, address |-> Unhex(ret.val)])
          /\ toIPv4([version |-> 6, address |-> Unhex(ret.val)])
                = Ok([version |-> 4, address |-> Unhex(ret.arg)])
    /\ ret.op = "toIPv4" =>
          IF Top(Unhex(ret.arg), 96, 65535)
          THEN /\ ret.kind = "ip" /\ ret.version = 4 /\ Fits(ret.val, 32)
               /\ \A i \in 0..31 : BitAt(Unhex(ret.val), i) = BitAt(Unhex(ret.arg), i)
          ELSE ret.kind = "null"

\* ::ffff:192.168.1.1 is turned into 192.168.1.1
C21_Witness ==
    ret.op = "toIPv4" /\ ret.arg = "ffffc0a80101" /\ ret.kind = "ip" /\ ret.val = "c0a80101"


\* octet k (0 the lowest) of the number n
OctetOf(n, k) == DigitAt(n, 2 * k) + 16 * DigitAt(n, 2 * k + 1)

\* the reverse DNS name of the table for the number n of a version: the
\* four decimal octets, or the 32 hex nibbles, from the lowest up
ArpaName(version, n) ==
    IF version = 4
    THEN Join([k \in 1..4 |-> DecStr(OctetOf(n, k - 1))], <<".">>) \o Chars(".in-addr.arpa")
    ELSE Join([k \in 1..32 |-> <<HexLower[DigitAt(n, k - 1) + 1]>>], <<".">>)
         \o Chars(".ip6.arpa")

\* C22: toArpa() of an IPv4 address is its four decimal octets in reverse
\* order joined by '.' and followed by '.in-addr.arpa'; toArpa() of an IPv6
\* address, an IPv4-mapped one as well, is the 32 lowercase hex nibbles of
\* its number, the least significant first, joined by '.' and followed by
\* '.ip6.arpa'
C22_Arpa ==
    ret.op = "toArpa" =>
        ret.kind = "text" /\ ret.val = Str(ArpaName(ret.version, Unhex(ret.arg)))



\* the methods of an address value and of a CIDR value
AddressMethods ==
    {"next", "previous", "not", "and", "or", "toIPv4Mapped", "toIPv4", "address", "toBigInt",
     "toArpa", "isPrivate", "isLoopback", "isMulticast", "isLinkLocal", "isUniqueLocal",
     "isIPv4Mapped", "isUnspecified", "isBroadcast", "isReserved", "isGlobalUnicast"}
CIDRMethods == {"netmask", "network", "broadcast", "first", "last", "contains", "toString"}

\* a method call leaves the object it was called on as it was before the
\* call: the address value held, or the address value of the number the
\* call names when it was made for the call
Untouched ==
    /\ ret'.op \in AddressMethods =>
          /\ receiver'.cidr = NoCIDR
          /\ receiver'.ip = IF ip = NoIP THEN [version |-> ret'.version, address |-> ret'.arg]
                            ELSE ip
          /\ receiver'.ip.address = ret'.arg
          /\ ret'.kind # "ip" => ip' = receiver'.ip
    /\ ret'.op \in CIDRMethods =>
          receiver'.ip = NoIP /\ receiver'.cidr = cidr /\ cidr' = cidr /\ ip' = ip

\* the query that ret records, asked again of the object it was asked of,
\* returns an equal result
Repeatable ==
    /\ ret.op = "address" => ret.val = Str(IPaddress(UnpackIP(receiver.ip)))
    /\ ret.op = "toBigInt" => ret.val = Hex(toBigInt(UnpackIP(receiver.ip)))
    /\ ret.op = "toArpa" => ret.val = Str(toArpa(UnpackIP(receiver.ip)))
    /\ ret.op = "isReserved" => Answers(isReserved(UnpackIP(receiver.ip)))
    /\ ret.op = "not" => ret = IPCall("not", ret.arg, "", not(UnpackIP(receiver.ip)))
    /\ ret.op = "network" => ret = IPCall("network", ret.arg, "", network(UnpackCIDR(receiver.cidr)))
    /\ ret.op = "last" => ret = IPCall("last", ret.arg, "", last(UnpackCIDR(receiver.cidr)))
    /\ ret.op = "toString" => ret.val = Str(CIDRtoString(UnpackCIDR(receiver.cidr)))

Dotted(n) == Join([k \in 1..4 |-> DecStr(OctetOf(n, 4 - k))], <<".">>)

\* group i (1 the most significant) of the 128-bit number n as four
\* lowercase hex digits
FourDigits(n, i) == [j \in 1..4 |-> HexLower[DigitAt(n, 4 * (8 - i) + 4 - j) + 1]]

FirstDouble(text) ==
    IF DoubleColons(text) = 0 THEN 0
    ELSE CHOOSE i \in 1..(Len(text) - 1) :
            /\ SubSeq(text, i, i + 1) = "::"
            /\ \A j \in 1..(i - 1) : SubSeq(text, j, j + 1) # "::"

\* the groups written in a piece of text, none for the empty piece
Written(piece) == IF piece = <<>> THEN <<>> ELSE Split(piece, ":")

\* the groups the text stands for by the rule of '::': those left of it,
\* zero groups up to eight, those right of it; without '::' those written
Stood(text) ==
    IF FirstDouble(text) = 0 THEN Written(Chars(text))
    ELSE Written(Chars(SubSeq(text, 1, FirstDouble(text) - 1)))
         \o [i \in 1..(8 - Len(Written(Chars(SubSeq(text, 1, FirstDouble(text) - 1))))
                       - Len(Written(Chars(SubSeq(text, FirstDouble(text) + 2, Len(text)))))) |->
               <<"0">>]
         \o Written(Chars(SubSeq(text, FirstDouble(text) + 2, Len(text))))

\* hex digit j (0 the lowest) of a group of one to four hex digits
GroupDigit(group, j) == IF j < Len(group) THEN HexValue[group[Len(group) - j]] ELSE 0

\* the number of eight groups, the first the most significant
GroupsNumber(groups) ==
    Norm(0, [p \in 1..32 |-> GroupDigit(groups[8 - ((p - 1) \div 4)], (p - 1) % 4)])

\* the last call parsed, as IPv6, a text without dots that the validation
\* of IPv6 accepts and that has one '::' or eight groups
ParsedShort ==
    /\ \/ ret.op = "ipToBigInt" /\ ret.arg2 \in {"omitted", "6"}
       \/ ret.op = "new" /\ ret.arg2 = "IPv6"
    /\ ~Includes(Chars(ret.arg), ".")
    /\ isValid(6, Chars(ret.arg))
    /\ \/ DoubleColons(ret.arg) = 1
       \/ DoubleColons(ret.arg) = 0 /\ Len(Split(Chars(ret.arg), ":")) = 8

\* C25: an IPv6 literal without dots that validation accepts and that has
\* one '::' among k <= 7 groups parses to the number whose eight groups are
\* the groups left of '::', 8 - k zero groups and the groups right of it,
\* wherever the '::' stands; a literal of eight groups parses to the number
\* of those groups; the case of the hex digits and leading zeros of a group
\* make no difference
C25_Expansion ==
    ParsedShort =>
        /\ ret.kind \in {"bigint", "ip"}
        /\ Len(Stood(ret.arg)) = 8
        /\ ret.val = Hex(GroupsNumber(Stood(ret.arg)))

\* 1:0db8:AB::00ff with k = 4 groups
C25_Witness ==
    /\ ret.op = "ipToBigInt" /\ ret.arg2 = "6" /\ ret.arg = "1:0db8:AB::00ff"
    /\ ret.val = "10db800ab000000000000000000ff"


\* a group of one to four hex digits
HexGroup(group) == Len(group) \in 1..4 /\ \A i \in 1..Len(group) : group[i] \in HexChars

\* the text is eight groups of one to four hex digits, or up to seven of
\* them with one '::' in the place of the missing ones
WellFormed6(text) ==
    /\ DoubleColons(text) <= 1
    /\ DoubleColons(text) = 0 => Len(Written(Chars(text))) = 8
    /\ Len(Stood(text)) = 8
    /\ \A i \in 1..8 : HexGroup(Stood(text)[i])

\* C26: ipToBigInt with version 6 rejects with InvalidIPAddressError, and
\* returns no number for, every literal that does not have eight groups
\* once '::' is expanded, that has an empty group other than one '::' (a
\* lone ':' in front or at the end, a second '::'), or that has a group
\* that is not one to four hex digits
C26_Rejects ==
    /\ ret.op = "ipToBigInt" /\ ret.arg2 = "6"
    /\ ~Includes(Chars(ret.arg), ".") /\ ~Includes(Chars(ret.arg), "%")
    /\ ~WellFormed6(ret.arg)
    => ret.kind = "throw" /\ ret.err = InvalidIPAddressError


\* the place of the first '%' of a text that has one
FirstPercent(text) == MinOf({i \in 1..Len(text) : SubSeq(text, i, i) = "%"})

\* the literal before the first '%' of the text
Unzoned(text) == SubSeq(text, 1, FirstPercent(text) - 1)

\* C27: for an IPv6 literal s that ipToBigInt(s, 6) parses and a zone id z
\* that is not empty, ipToBigInt(s + '%' + z, 6) is the number of s: the
\* zone is cut off and dropped, whatever it is
C27_Zone ==
    /\ ret.op = "ipToBigInt" /\ ret.arg2 = "6" /\ Includes(Chars(ret.arg), "%")
    /\ FirstPercent(ret.arg) < Len(ret.arg)
    /\ ipToBigInt(Chars(Unzoned(ret.arg)), 6).ok
    => ret.kind = "bigint" /\ ret.val = Hex(ipToBigInt(Chars(Unzoned(ret.arg)), 6).val)


\* C28: parseIP of the canonical text of an address value, however the
\* value was made, returns an address value of the same version and the
\* same number
C28_Reparse ==
    ret.op = "parseIP" /\ ret.src # "" =>
        ret.kind = "ip" /\ ret.version = ClassVersion(ret.arg2) /\ ret.val = ret.src

\* C29: for a text s, isValidIP(s) is true exactly when parseIP(s) returns
\* an address value, and false exactly when parseIP(s) raises
\* InvalidIPAddressError
C29_ValidParses ==
    /\ ret.op = "isValidIP" /\ ret.arg2 = "string" =>
          /\ (ret.val = "true") <=> parseIP(Chars(ret.arg)).ok
          /\ (ret.val = "false") <=>
                (~parseIP(Chars(ret.arg)).ok
                 /\ parseIP(Chars(ret.arg)).err = InvalidIPAddressError)
    /\ ret.op = "parseIP" =>
          /\ ret.kind \in {"ip", "throw"}
          /\ ret.kind = "throw" => ret.err = InvalidIPAddressError
          /\ (ret.kind = "ip")
                <=> isValidIP([type |-> "string", text |-> Chars(ret.arg), name |-> ret.arg])


\* the CIDR value held and the address value that the last getter returned
HeldBlock == UnpackCIDR(cidr)
Returned == [text |-> FALSE, val |-> [version |-> ret.version, address |-> Unhex(ret.val)]]

\* C30: for a CIDR value c and an address x of its version, c.contains(x)
\* is true exactly when (x AND c.netmask) = c.network; c.contains of
\* c.address, of c.first and of c.last is true, and
\* network <= first <= last <= broadcast
C30_Block ==
    /\ ret.op = "contains" /\ ret.version = cidr.address.version =>
          /\ ret.kind = "bool"
          /\ (ret.val = "true")
                <=> (BigAnd(Unhex(ret.src), netmask(HeldBlock).val.address)
                        = network(HeldBlock).val.address)
          /\ ret.arg2 = "address" => ret.val = "true"
    /\ ret.op \in {"first", "last"} =>
          /\ ret.kind = "ip"
          /\ contains(HeldBlock, Returned) = Ok(TRUE)
          /\ contains(HeldBlock, [text |-> FALSE, val |-> HeldBlock.address]) = Ok(TRUE)
    /\ ret.op = "first" =>
          /\ BigLe(network(HeldBlock).val.address, Unhex(ret.val))
          /\ BigLe(Unhex(ret.val), last(HeldBlock).val.address)
          /\ BigLe(last(HeldBlock).val.address, broadcast(HeldBlock).val.address)

\* the address of 192.168.1.100/22 lies in its block, above the network
\* address
C30_Witness ==
    /\ ret.op = "contains" /\ ret.arg2 = "address" /\ ret.val = "true"
    /\ cidr.address = [version |-> 4, address |-> "c0a80164"] /\ cidr.prefix = 22
    /\ ret.src # Hex(NetworkNumber)
=============================================================================
